---- MODULE Spec2Model ----
(***************************************************************************)
(* Model of the fastjson library: the JSON value model (src/src/value.rs), *)
(* the emitters (value.rs Display, ser.rs pretty_print), the parser        *)
(* (src/src/de.rs) and the built-in Serialize / Deserialize bodies.        *)
(*                                                                         *)
(* Text is a sequence of Unicode code points; byte offsets are computed    *)
(* from the UTF-8 width of each code point, as str::char_indices does.     *)
(* An f64 is identified with its shortest round-trippable decimal          *)
(* (digits dg, decimal exponent x, value = dg * 10^x), or inf / NaN.       *)
(***************************************************************************)
EXTENDS Integers, Sequences, FiniteSets, TLC

(***************************************************************************)
(* Bounds of the model.                                                    *)
(***************************************************************************)
MaxPieces == 3
MaxDepth == 2
MaxWidth == 2
\* changes a caller makes to an Object a derived decoder accepts
MaxChanges == 2
\* pairs of an object literal a caller writes
MaxPairs == 3
\* units (characters and escapes) of a string literal a caller writes
MaxEscapes == 2
\* characters of a number text a caller writes
MaxChars == 4

(***************************************************************************)
(* Characters.                                                             *)
(***************************************************************************)
Chr ==
  ("\"" :> 34) @@ ("\\" :> 92) @@ ("/" :> 47) @@ (" " :> 32) @@
  ("[" :> 91) @@ ("]" :> 93) @@ ("{" :> 123) @@ ("}" :> 125) @@
  ("," :> 44) @@ (":" :> 58) @@ ("-" :> 45) @@ ("+" :> 43) @@ ("." :> 46) @@
  ("0" :> 48) @@ ("1" :> 49) @@ ("2" :> 50) @@ ("3" :> 51) @@ ("4" :> 52) @@
  ("5" :> 53) @@ ("6" :> 54) @@ ("7" :> 55) @@ ("8" :> 56) @@ ("9" :> 57) @@
  ("a" :> 97) @@ ("b" :> 98) @@ ("e" :> 101) @@ ("f" :> 102) @@
  ("i" :> 105) @@ ("l" :> 108) @@ ("n" :> 110) @@ ("r" :> 114) @@
  ("s" :> 115) @@ ("t" :> 116) @@ ("u" :> 117) @@ ("x" :> 120) @@
  ("E" :> 69) @@ ("N" :> 78) @@
  ("TAB" :> 9) @@ ("LF" :> 10) @@ ("VT" :> 11) @@ ("FF" :> 12) @@
  ("CR" :> 13) @@ ("BS" :> 8) @@ ("SOH" :> 1) @@
  ("c" :> 99) @@ ("d" :> 100) @@ ("g" :> 103) @@ ("h" :> 104) @@ ("j" :> 106) @@
  ("k" :> 107) @@ ("m" :> 109) @@ ("o" :> 111) @@ ("p" :> 112) @@ ("q" :> 113) @@
  ("v" :> 118) @@ ("w" :> 119) @@ ("y" :> 121) @@ ("z" :> 122) @@ ("A" :> 65) @@
  ("B" :> 66) @@ ("C" :> 67) @@ ("D" :> 68) @@ ("F" :> 70) @@ ("G" :> 71) @@
  ("H" :> 72) @@ ("I" :> 73) @@ ("J" :> 74) @@ ("K" :> 75) @@ ("L" :> 76) @@
  ("M" :> 77) @@ ("O" :> 79) @@ ("P" :> 80) @@ ("Q" :> 81) @@ ("R" :> 82) @@
  ("S" :> 83) @@ ("T" :> 84) @@ ("U" :> 85) @@ ("V" :> 86) @@ ("W" :> 87) @@
  ("X" :> 88) @@ ("Y" :> 89) @@ ("Z" :> 90) @@ ("#" :> 35) @@ ("(" :> 40) @@
  (")" :> 41) @@ ("=" :> 61) @@ ("<" :> 60) @@ (">" :> 62) @@ ("_" :> 95) @@
  (";" :> 59) @@
  ("NBSP" :> 160) @@ ("EACUTE" :> 233) @@ ("EURO" :> 8364)

Str(names) == [i \in 1..Len(names) |-> Chr[names[i]]]

\* UTF-8 width of a code point (the stride of str::char_indices)
ByteLen(c) == IF c < 128 THEN 1 ELSE IF c < 2048 THEN 2 ELSE IF c < 65536 THEN 3 ELSE 4

RECURSIVE ByteOff(_, _)
\* byte offset of the i-th character (1-based) of input; i = Len+1 gives input.len()
ByteOff(input, i) == IF i <= 1 THEN 0 ELSE ByteOff(input, i - 1) + ByteLen(input[i - 1])

ByteSize(input) == ByteOff(input, Len(input) + 1)

\* input.is_char_boundary(b)
IsCharBoundary(input, b) == \E i \in 1..(Len(input) + 1) : ByteOff(input, i) = b

\* index of the character that starts at byte b (a char boundary)
CharAt(input, b) == CHOOSE i \in 1..(Len(input) + 1) : ByteOff(input, i) = b

\* char::is_whitespace (Unicode White_Space)
is_whitespace(c) ==
  c \in ({9, 10, 11, 12, 13, 32, 133, 160, 5760, 8232, 8233, 8239, 8287, 12288}
         \cup (8192..8202))

is_ascii_digit(c) == c \in 48..57

is_ascii_hexdigit(c) == c \in (48..57) \cup (65..70) \cup (97..102)

\* char::to_digit(16) on a hex digit
to_digit16(c) == IF c \in 48..57 THEN c - 48 ELSE IF c \in 65..70 THEN c - 55 ELSE c - 87

\* std::char::from_u32: None for the surrogate range (four hex digits stay below 0x10000)
from_u32_ok(cp) == ~(cp \in 55296..57343)

(***************************************************************************)
(* f64.                                                                    *)
(***************************************************************************)
Fin(neg, dg, x) == [k |-> "fin", neg |-> neg, dg |-> dg, x |-> x]
Inf(neg) == [k |-> "inf", neg |-> neg]
NaN == [k |-> "nan"]
Zero == Fin(FALSE, <<>>, 0)

RECURSIVE StripLeading(_)
StripLeading(d) == IF d # <<>> /\ Head(d) = 0 THEN StripLeading(Tail(d)) ELSE d

RECURSIVE StripTrailing(_, _)
\* removes trailing zero digits, raising the exponent
StripTrailing(d, x) ==
  IF d # <<>> /\ d[Len(d)] = 0 THEN StripTrailing(SubSeq(d, 1, Len(d) - 1), x + 1)
  ELSE <<d, x>>

\* the canonical form of digits * 10^x
Norm(neg, digits, x) ==
  LET d1 == StripLeading(digits)
      r == StripTrailing(d1, x)
  IN IF r[1] = <<>> THEN Fin(neg, <<>>, 0) ELSE Fin(neg, r[1], r[2])

\* number of digits before the decimal point (may be <= 0)
IntLen(n) == Len(n.dg) + n.x

DigitAt(d, i) == IF i <= Len(d) THEN d[i] ELSE 0

RECURSIVE DigitsLess(_, _, _)
\* lexicographic comparison of two digit strings padded with zeros, from index i
DigitsLess(a, b, i) ==
  IF i > Len(a) /\ i > Len(b) THEN FALSE
  ELSE IF DigitAt(a, i) # DigitAt(b, i) THEN DigitAt(a, i) < DigitAt(b, i)
  ELSE DigitsLess(a, b, i + 1)

\* |a| < |b| for finite a, b
MagLess(a, b) ==
  IF a.dg = <<>> THEN b.dg # <<>>
  ELSE IF b.dg = <<>> THEN FALSE
  ELSE IF IntLen(a) # IntLen(b) THEN IntLen(a) < IntLen(b)
  ELSE DigitsLess(a.dg, b.dg, 1)

IsZero(n) == n.k = "fin" /\ n.dg = <<>>

\* a < b on f64 (false when either is NaN)
F64Lt(a, b) ==
  IF a.k = "nan" \/ b.k = "nan" THEN FALSE
  ELSE IF a.k = "inf" THEN a.neg /\ ~(b.k = "inf" /\ b.neg)
  ELSE IF b.k = "inf" THEN ~b.neg
  ELSE IF IsZero(a) /\ IsZero(b) THEN FALSE
  ELSE IF IsZero(a) THEN ~b.neg
  ELSE IF IsZero(b) THEN a.neg
  ELSE IF a.neg # b.neg THEN a.neg
  ELSE IF a.neg THEN MagLess(b, a) ELSE MagLess(a, b)

\* a == b on f64 (NaN differs from itself, -0 equals 0)
F64Eq(a, b) ==
  IF a.k = "nan" \/ b.k = "nan" THEN FALSE
  ELSE IF IsZero(a) /\ IsZero(b) THEN TRUE
  ELSE a = b

is_finite(n) == n.k = "fin"

\* n.fract() != 0.0 : the fractional part of a non-finite f64 is NaN
fract_nonzero(n) == n.k # "fin" \/ n.x < 0

Zeros(k) == [i \in 1..k |-> 0]

\* f64 from an integer literal given by its digits
IntLit(neg, digits) == Norm(neg, digits, 0)

(***************************************************************************)
(* Decimal text <-> f64.                                                   *)
(***************************************************************************)
RECURSIVE DigitsEnd(_, _)
\* first index >= i of s that does not hold an ASCII digit
DigitsEnd(s, i) == IF i <= Len(s) /\ is_ascii_digit(s[i]) THEN DigitsEnd(s, i + 1) ELSE i

DigitVals(s, a, b) == [i \in 1..(b - a + 1) |-> s[a + i - 1] - 48]

\* exponents beyond this magnitude saturate (the result is inf or 0 long before)
ExpCap == 100000

RECURSIVE DigitsToNat(_, _, _)
DigitsToNat(d, i, acc) ==
  IF i > Len(d) THEN acc
  ELSE DigitsToNat(d, i + 1, IF acc * 10 + d[i] > ExpCap THEN ExpCap ELSE acc * 10 + d[i])

\* leading digits of 2^1024 - 2^970, the smallest magnitude that rounds to infinity
OverflowDigits == <<1,7,9,7,6,9,3,1,3,4,8,6,2,3,1,5,8,0,7,9,3,7,2,8,9,7,1,4,0,5,3>>

\* leading digits of 2^-1075, the largest magnitude that rounds to zero
UnderflowDigits == <<2,4,7,0,3,2,8,2,2,9,2,0,6,2,3,2,7,2,0,8,8,2,8,4,3,9,6,4,3,4,1>>

\* round-to-nearest of an exact decimal: overflow gives infinity, underflow
\* gives zero; a decimal of at most 15 significant digits in the normal range
\* is the shortest decimal of the f64 it rounds to
RoundF64(n) ==
  IF n.dg = <<>> THEN n
  ELSE IF IntLen(n) > 309 THEN Inf(n.neg)
  ELSE IF IntLen(n) = 309 /\ ~DigitsLess(n.dg, OverflowDigits, 1) THEN Inf(n.neg)
  ELSE IF IntLen(n) < -323 THEN Fin(n.neg, <<>>, 0)
  ELSE IF IntLen(n) = -323 /\ ~DigitsLess(UnderflowDigits, n.dg, 1) THEN Fin(n.neg, <<>>, 0)
  ELSE n

\* <f64 as FromStr>::from_str on a literal of the JSON number grammar
F64FromStr(s) ==
  LET neg == s[1] = Chr["-"]
      i0 == IF neg THEN 2 ELSE 1
      i1 == DigitsEnd(s, i0)
      intd == DigitVals(s, i0, i1 - 1)
      hasFrac == i1 <= Len(s) /\ s[i1] = Chr["."]
      i2 == IF hasFrac THEN DigitsEnd(s, i1 + 1) ELSE i1
      fracd == IF hasFrac THEN DigitVals(s, i1 + 1, i2 - 1) ELSE <<>>
      hasExp == i2 <= Len(s) /\ s[i2] \in {Chr["e"], Chr["E"]}
      hasSign == hasExp /\ i2 + 1 <= Len(s) /\ s[i2 + 1] \in {Chr["+"], Chr["-"]}
      expNeg == hasSign /\ s[i2 + 1] = Chr["-"]
      i3 == IF hasSign THEN i2 + 2 ELSE i2 + 1
      expAbs == IF hasExp THEN DigitsToNat(DigitVals(s, i3, Len(s)), 1, 0) ELSE 0
      exp == IF expNeg THEN 0 - expAbs ELSE expAbs
  IN RoundF64(Norm(neg, intd \o fracd, exp - Len(fracd)))

DigitChars(d) == [i \in 1..Len(d) |-> 48 + d[i]]

\* <f64 as Display>::fmt : shortest digits, never an exponent, no ".0"
F64Display(n) ==
  IF n.k = "nan" THEN Str(<<"N", "a", "N">>)
  ELSE IF n.k = "inf" THEN (IF n.neg THEN Str(<<"-">>) ELSE <<>>) \o Str(<<"i", "n", "f">>)
  ELSE LET sign == IF n.neg THEN Str(<<"-">>) ELSE <<>>
           body == IF n.dg = <<>> THEN Str(<<"0">>)
                   ELSE IF n.x >= 0 THEN DigitChars(n.dg \o Zeros(n.x))
                   ELSE IF IntLen(n) > 0
                        THEN DigitChars(SubSeq(n.dg, 1, IntLen(n))) \o Str(<<".">>)
                             \o DigitChars(SubSeq(n.dg, IntLen(n) + 1, Len(n.dg)))
                   ELSE Str(<<"0", ".">>) \o DigitChars(Zeros(0 - IntLen(n)) \o n.dg)
       IN sign \o body

(***************************************************************************)
(* Value (src/src/value.rs).                                               *)
(***************************************************************************)
Null == [t |-> "Null"]
Bool(b) == [t |-> "Bool", b |-> b]
Number(n) == [t |-> "Number", n |-> n]
String(s) == [t |-> "String", s |-> s]
Array(a) == [t |-> "Array", a |-> a]
Object(o) == [t |-> "Object", o |-> o]

EmptyMap == [k \in {} |-> Null]

\* HashMap::insert : a later insert of the same key replaces the value
MapInsert(o, key, v) == [k \in (DOMAIN o) \cup {key} |-> IF k = key THEN v ELSE o[k]]

RECURSIVE ValueEq(_, _)
\* derived PartialEq of Value: structural, f64 equality on numbers,
\* HashMap equality (same key set, equal values) on objects
ValueEq(a, b) ==
  IF a.t # b.t THEN FALSE
  ELSE IF a.t = "Null" THEN TRUE
  ELSE IF a.t = "Bool" THEN a.b = b.b
  ELSE IF a.t = "Number" THEN F64Eq(a.n, b.n)
  ELSE IF a.t = "String" THEN a.s = b.s
  ELSE IF a.t = "Array"
       THEN Len(a.a) = Len(b.a) /\ \A i \in 1..Len(a.a) : ValueEq(a.a[i], b.a[i])
  ELSE (DOMAIN a.o) = (DOMAIN b.o) /\ \A k \in DOMAIN a.o : ValueEq(a.o[k], b.o[k])

RECURSIVE AllFinite(_)
\* no Number of the value is inf or NaN
AllFinite(v) ==
  IF v.t = "Number" THEN is_finite(v.n)
  ELSE IF v.t = "Array" THEN \A i \in 1..Len(v.a) : AllFinite(v.a[i])
  ELSE IF v.t = "Object" THEN \A k \in DOMAIN v.o : AllFinite(v.o[k])
  ELSE TRUE

(***************************************************************************)
(* Results and errors (src/src/error.rs).                                  *)
(***************************************************************************)
Eof == [kind |-> "Eof"]
syntax(position, message) == [kind |-> "Syntax", position |-> position, message |-> message]
expected_found(expected, found, position) ==
  [kind |-> "ExpectedFound", expected |-> expected, found |-> found, position |-> position]
TypeError(message) == [kind |-> "TypeError", message |-> message]
custom(message) == [kind |-> "Custom", message |-> message]

Ok(v) == [k |-> "ok", v |-> v]
Err(e) == [k |-> "err", e |-> e]
\* the call does not return: a panic unwinds out of the library
Panic(why) == [k |-> "panic", why |-> why]

(***************************************************************************)
(* Emitters.                                                               *)
(***************************************************************************)
\* value.rs escape_string, one character
escape_char(c) ==
  IF c = Chr["\""] THEN Str(<<"\\", "\"">>)
  ELSE IF c = Chr["\\"] THEN Str(<<"\\", "\\">>)
  ELSE IF c = Chr["LF"] THEN Str(<<"\\", "n">>)
  ELSE IF c = Chr["CR"] THEN Str(<<"\\", "r">>)
  ELSE IF c = Chr["TAB"] THEN Str(<<"\\", "t">>)
  ELSE IF c = Chr["BS"] THEN Str(<<"\\", "b">>)
  ELSE IF c = Chr["FF"] THEN Str(<<"\\", "f">>)
  ELSE <<c>>

RECURSIVE escape_string(_)
escape_string(s) == IF s = <<>> THEN <<>> ELSE escape_char(Head(s)) \o escape_string(Tail(s))

Quote == Str(<<"\"">>)

\* the keys of a map in the order the HashMap iterates them: the order is
\* not specified, so it is the order of the keys in an arbitrary listing
IterKeys(o, order) == SelectSeq(order, LAMBDA k : k \in DOMAIN o)

RECURSIVE Display(_, _)
RECURSIVE DisplayItems(_, _, _)
RECURSIVE DisplayPairs(_, _, _, _)
\* impl fmt::Display for Value (the compact form)
Display(v, order) ==
  IF v.t = "Null" THEN Str(<<"n", "u", "l", "l">>)
  ELSE IF v.t = "Bool"
       THEN (IF v.b THEN Str(<<"t", "r", "u", "e">>) ELSE Str(<<"f", "a", "l", "s", "e">>))
  ELSE IF v.t = "Number" THEN F64Display(v.n)
  ELSE IF v.t = "String" THEN Quote \o escape_string(v.s) \o Quote
  ELSE IF v.t = "Array" THEN Str(<<"[">>) \o DisplayItems(v.a, 1, order) \o Str(<<"]">>)
  ELSE Str(<<"{">>) \o DisplayPairs(v.o, IterKeys(v.o, order), 1, order) \o Str(<<"}">>)

DisplayItems(a, i, order) ==
  IF i > Len(a) THEN <<>>
  ELSE (IF i > 1 THEN Str(<<",", " ">>) ELSE <<>>) \o Display(a[i], order)
       \o DisplayItems(a, i + 1, order)

DisplayPairs(o, keys, i, order) ==
  IF i > Len(keys) THEN <<>>
  ELSE (IF i > 1 THEN Str(<<",", " ">>) ELSE <<>>)
       \o Quote \o escape_string(keys[i]) \o Str(<<"\"", ":", " ">>)
       \o Display(o[keys[i]], order) \o DisplayPairs(o, keys, i + 1, order)

Spaces(k) == [i \in 1..k |-> Chr[" "]]

RECURSIVE pretty_print(_, _, _)
RECURSIVE PrettyItems(_, _, _, _)
RECURSIVE PrettyPairs(_, _, _, _, _)
\* ser.rs pretty_print
pretty_print(v, indent, order) ==
  IF v.t = "Null" THEN Str(<<"n", "u", "l", "l">>)
  ELSE IF v.t = "Bool"
       THEN (IF v.b THEN Str(<<"t", "r", "u", "e">>) ELSE Str(<<"f", "a", "l", "s", "e">>))
  ELSE IF v.t = "Number" THEN F64Display(v.n)
  ELSE IF v.t = "String" THEN Quote \o escape_string(v.s) \o Quote
  ELSE IF v.t = "Array"
       THEN IF v.a = <<>> THEN Str(<<"[", "]">>)
            ELSE Str(<<"[", "LF">>) \o PrettyItems(v.a, 1, indent + 2, order)
                 \o Spaces(indent) \o Str(<<"]">>)
  ELSE IF DOMAIN v.o = {} THEN Str(<<"{", "}">>)
       ELSE Str(<<"{", "LF">>) \o PrettyPairs(v.o, IterKeys(v.o, order), 1, indent + 2, order)
            \o Spaces(indent) \o Str(<<"}">>)

PrettyItems(a, i, next_indent, order) ==
  IF i > Len(a) THEN <<>>
  ELSE Spaces(next_indent) \o pretty_print(a[i], next_indent, order)
       \o (IF i < Len(a) THEN Str(<<",", "LF">>) ELSE Str(<<"LF">>))
       \o PrettyItems(a, i + 1, next_indent, order)

\* the key is pushed as it is, without escaping
PrettyPairs(o, keys, i, next_indent, order) ==
  IF i > Len(keys) THEN <<>>
  ELSE Spaces(next_indent) \o Quote \o keys[i] \o Str(<<"\"", ":", " ">>)
       \o pretty_print(o[keys[i]], next_indent, order)
       \o (IF i < Len(keys) THEN Str(<<",", "LF">>) ELSE Str(<<"LF">>))
       \o PrettyPairs(o, keys, i + 1, next_indent, order)

(***************************************************************************)
(* Parser (src/src/de.rs).  A parser state st holds i, the index of the    *)
(* next character the chars iterator yields, and pos, the field self.pos:  *)
(* the byte offset of the character consumed last (0 before any).          *)
(***************************************************************************)
POk(v, st) == [k |-> "ok", v |-> v, st |-> st]

NoChar == 0 - 1

\* Parser::new
Parser_new == [i |-> 1, pos |-> 0]

\* Parser::peek, the character (NoChar for None)
peek(input, st) == IF st.i <= Len(input) THEN input[st.i] ELSE NoChar

\* Parser::peek, the byte offset that comes with the character
peek_pos(input, st) == ByteOff(input, st.i)

\* Parser::next
next(input, st) ==
  IF st.i <= Len(input) THEN [i |-> st.i + 1, pos |-> ByteOff(input, st.i)] ELSE st

RECURSIVE next_n(_, _, _)
\* for _ in 0..n { self.next(); }
next_n(input, st, n) == IF n = 0 THEN st ELSE next_n(input, next(input, st), n - 1)

RECURSIVE skip_whitespace(_, _)
skip_whitespace(input, st) ==
  IF peek(input, st) # NoChar /\ is_whitespace(peek(input, st))
  THEN skip_whitespace(input, next(input, st))
  ELSE st

\* &input[a..b] for char boundaries a <= b
Slice(input, a, b) == SubSeq(input, CharAt(input, a), CharAt(input, b) - 1)

\* input[a..].starts_with(word)
StartsWithAt(input, a, word) ==
  LET i == CharAt(input, a)
  IN i + Len(word) - 1 <= Len(input) /\ SubSeq(input, i, i + Len(word) - 1) = word

\* the comparison of parse_true and parse_false: a length test, then a slice
\* by byte range, which panics when its end is not a char boundary
KeywordBySlice(input, st, word, v, message) ==
  IF st.pos + Len(word) <= ByteSize(input)
  THEN IF ~IsCharBoundary(input, st.pos + Len(word))
       THEN Panic("byte index is not a char boundary")
       ELSE IF Slice(input, st.pos, st.pos + Len(word)) = word
            THEN POk(v, next_n(input, st, Len(word)))
            ELSE Err(syntax(st.pos, <<message>>))
  ELSE Err(syntax(st.pos, <<message>>))

parse_true(input, st) ==
  KeywordBySlice(input, st, Str(<<"t", "r", "u", "e">>), Bool(TRUE), "expected 'true'")

parse_false(input, st) ==
  KeywordBySlice(input, st, Str(<<"f", "a", "l", "s", "e">>), Bool(FALSE), "expected 'false'")

parse_null(input, st) ==
  IF StartsWithAt(input, st.pos, Str(<<"n", "u", "l", "l">>))
  THEN POk(Null, next_n(input, st, 4))
  ELSE Err(syntax(st.pos, <<"expected 'null'">>))

RECURSIVE UnicodeEscape(_, _, _, _)
\* the four next() of a \u escape; n digits are still to be read
UnicodeEscape(input, st, n, code_point) ==
  IF n = 0 THEN POk(code_point, st)
  ELSE LET c == peek(input, st)
           p == peek_pos(input, st)
       IN IF c = NoChar THEN Err(Eof)
          ELSE IF is_ascii_hexdigit(c)
               THEN UnicodeEscape(input, next(input, st), n - 1, code_point * 16 + to_digit16(c))
          ELSE Err(syntax(p, <<"invalid unicode escape", c>>))

\* the character an escape letter stands for, NoChar when it is no escape
EscapeOf(c) ==
  IF c = Chr["n"] THEN Chr["LF"]
  ELSE IF c = Chr["r"] THEN Chr["CR"]
  ELSE IF c = Chr["t"] THEN Chr["TAB"]
  ELSE IF c = Chr["b"] THEN Chr["BS"]
  ELSE IF c = Chr["f"] THEN Chr["FF"]
  ELSE IF c = Chr["\""] THEN Chr["\""]
  ELSE IF c = Chr["\\"] THEN Chr["\\"]
  ELSE NoChar

RECURSIVE StringLoop(_, _, _, _)
\* the loop of parse_string, one self.next() per iteration
StringLoop(input, st, result, escaped) ==
  LET c == peek(input, st)
      p == peek_pos(input, st)
      st1 == next(input, st)
  IN IF c = NoChar THEN Err(Eof)
     ELSE IF ~escaped
          THEN IF c = Chr["\""] THEN POk(String(result), st1)
               ELSE IF c = Chr["\\"] THEN StringLoop(input, st1, result, TRUE)
               ELSE StringLoop(input, st1, Append(result, c), FALSE)
     ELSE IF EscapeOf(c) # NoChar
          THEN StringLoop(input, st1, Append(result, EscapeOf(c)), FALSE)
     ELSE IF c = Chr["u"]
          THEN LET u == UnicodeEscape(input, st1, 4, 0)
               IN IF u.k # "ok" THEN u
                  ELSE IF from_u32_ok(u.v)
                       THEN StringLoop(input, u.st, Append(result, u.v), FALSE)
                       ELSE Err(syntax(u.st.pos, <<"invalid unicode code point">>))
     ELSE Err(syntax(p, <<"invalid escape", c>>))

parse_string(input, st) == StringLoop(input, next(input, st), <<>>, FALSE)

\* while let Some((_, c)) = self.peek() { if !c.is_ascii_digit() { break; } ... self.next(); }
DigitRun(input, st) ==
  LET j == DigitsEnd(input, st.i)
  IN [st |-> next_n(input, st, j - st.i), digits |-> SubSeq(input, st.i, j - 1)]

parse_number(input, st) ==
  LET start_pos == st.pos
      hasMinus == peek(input, st) = Chr["-"]
      s1 == IF hasMinus THEN next(input, st) ELSE st
      str1 == IF hasMinus THEN Str(<<"-">>) ELSE <<>>
      leadZero == peek(input, s1) = Chr["0"]
      run == DigitRun(input, s1)
      s2 == IF leadZero THEN next(input, s1) ELSE run.st
      str2 == str1 \o (IF leadZero THEN Str(<<"0">>) ELSE run.digits)
      has_digits == leadZero \/ run.digits # <<>>
      hasDot == peek(input, s2) = Chr["."]
      frun == DigitRun(input, next(input, s2))
      s3 == IF hasDot THEN frun.st ELSE s2
      str3 == IF hasDot THEN str2 \o Str(<<".">>) \o frun.digits ELSE str2
      hasExp == peek(input, s3) \in {Chr["e"], Chr["E"]}
      s4 == next(input, s3)
      hasSign == peek(input, s4) \in {Chr["+"], Chr["-"]}
      s5 == IF hasSign THEN next(input, s4) ELSE s4
      erun == DigitRun(input, s5)
      str4 == str3 \o <<peek(input, s3)>> \o (IF hasSign THEN <<peek(input, s4)>> ELSE <<>>)
              \o erun.digits
      number_str == IF hasExp THEN str4 ELSE str3
      s6 == IF hasExp THEN erun.st ELSE s3
  IN IF ~has_digits THEN Err(syntax(start_pos, <<"expected digit">>))
     ELSE IF hasDot /\ frun.digits = <<>>
          THEN Err(syntax(frun.st.pos, <<"expected digit after decimal point">>))
     ELSE IF hasExp /\ erun.digits = <<>>
          THEN Err(syntax(erun.st.pos, <<"expected digit in exponent">>))
     ELSE POk(Number(F64FromStr(number_str)), s6)

RECURSIVE parse_value(_, _)
RECURSIVE parse_array(_, _)
RECURSIVE ArrayLoop(_, _, _)
RECURSIVE parse_object(_, _)
RECURSIVE ObjectPair(_, _, _)
RECURSIVE ObjectLoop(_, _, _)

\* .map_err(|e| Error::syntax(pos, format!("Failed to parse array: {}", e)))
ArrayMapErr(value, pos) ==
  IF value.k = "err" THEN Err(syntax(pos, <<"Failed to parse array", value.e>>)) ELSE value

\* the match of parse_value on the character peeked after the whitespace
ValueMatch(input, st) ==
  LET c == peek(input, st)
  IN IF c = NoChar THEN Err(Eof)
     ELSE IF c = Chr["n"] THEN parse_null(input, st)
     ELSE IF c = Chr["t"] THEN parse_true(input, st)
     ELSE IF c = Chr["f"] THEN parse_false(input, st)
     ELSE IF c = Chr["\""] THEN parse_string(input, st)
     ELSE IF c = Chr["["] THEN ArrayMapErr(parse_array(input, st), peek_pos(input, st))
     ELSE IF c = Chr["{"] THEN parse_object(input, st)
     ELSE IF c = Chr["-"] \/ is_ascii_digit(c) THEN parse_number(input, st)
     ELSE Err(syntax(peek_pos(input, st), <<"unexpected character", c>>))

parse_value(input, st0) == ValueMatch(input, skip_whitespace(input, st0))

\* the `?` on an element's parse_value, then the push and skip_whitespace
ArrayPush(input, items, item) ==
  IF item.k # "ok" THEN item
  ELSE ArrayLoop(input, skip_whitespace(input, item.st), Append(items, item.v))

\* parse_array after the '[' and the whitespace behind it
ArrayOpen(input, st) ==
  IF peek(input, st) = Chr["]"] THEN POk(Array(<<>>), next(input, st))
  ELSE ArrayPush(input, <<>>, parse_value(input, st))

parse_array(input, st0) == ArrayOpen(input, skip_whitespace(input, next(input, st0)))

\* the ',' arm of the loop of parse_array, after the whitespace behind it
ArrayComma(input, s1, items) ==
  IF peek(input, s1) = Chr["]"]
  THEN Err(syntax(peek_pos(input, s1), <<"trailing comma in array is not allowed in JSON">>))
  ELSE ArrayPush(input, items, parse_value(input, s1))

ArrayLoop(input, st, items) ==
  LET c == peek(input, st)
  IN IF c = NoChar THEN Err(Eof)
     ELSE IF c = Chr[","] THEN ArrayComma(input, skip_whitespace(input, next(input, st)), items)
     ELSE IF c = Chr["]"] THEN POk(Array(items), next(input, st))
     ELSE Err(expected_found("',' or ']'", c, peek_pos(input, st)))

\* the `?` on a member's parse_value, then map.insert and skip_whitespace
ObjectInsert(input, map, key, value) ==
  IF value.k # "ok" THEN value
  ELSE POk(MapInsert(map, key, value.v), skip_whitespace(input, value.st))

\* the colon behind a key and the whitespace after the key
ObjectColon(input, s1, map, key) ==
  LET c == peek(input, s1)
  IN IF c = NoChar THEN Err(Eof)
     ELSE IF c # Chr[":"] THEN Err(expected_found("':'", c, peek_pos(input, s1)))
     ELSE ObjectInsert(input, map, key,
                       parse_value(input, skip_whitespace(input, next(input, s1))))

\* the `?` on a key's parse_string and the String it must have produced
ObjectKey(input, map, key_value) ==
  IF key_value.k # "ok" THEN key_value
  ELSE ObjectColon(input, skip_whitespace(input, key_value.st), map, key_value.v.s)

\* a key, a colon and a value, inserted into map; st is at the opening quote
ObjectPair(input, st, map) == ObjectKey(input, map, parse_string(input, st))

\* the `?` of a pair, then the loop of parse_object
ObjectRest(input, pair) ==
  IF pair.k # "ok" THEN pair ELSE ObjectLoop(input, pair.st, pair.v)

\* parse_object after the '{' and the whitespace behind it
ObjectOpen(input, st) ==
  LET c == peek(input, st)
  IN IF c = Chr["}"] THEN POk(Object(EmptyMap), next(input, st))
     ELSE IF c = Chr["\""] THEN ObjectRest(input, ObjectPair(input, st, EmptyMap))
     ELSE IF c # NoChar THEN Err(expected_found("'\"' or '}'", c, peek_pos(input, st)))
     ELSE Err(Eof)

parse_object(input, st0) == ObjectOpen(input, skip_whitespace(input, next(input, st0)))

\* the ',' arm of the loop of parse_object, after the whitespace behind it
ObjectComma(input, s1, map) ==
  LET c1 == peek(input, s1)
  IN IF c1 = Chr["}"]
     THEN Err(syntax(peek_pos(input, s1), <<"trailing comma in object is not allowed in JSON">>))
     ELSE IF c1 = Chr["\""] THEN ObjectRest(input, ObjectPair(input, s1, map))
     ELSE IF c1 # NoChar THEN Err(expected_found("'\"'", c1, peek_pos(input, s1)))
     ELSE Err(Eof)

ObjectLoop(input, st, map) ==
  LET c == peek(input, st)
  IN IF c = NoChar THEN Err(Eof)
     ELSE IF c = Chr[","] THEN ObjectComma(input, skip_whitespace(input, next(input, st)), map)
     ELSE IF c = Chr["}"] THEN POk(Object(map), next(input, st))
     ELSE Err(expected_found("',' or '}'", c, peek_pos(input, st)))

\* Parser::parse
Parser_parse(input, st) == parse_value(input, skip_whitespace(input, st))

\* parse without the test for a trailing character
TrailingCheckSkipped(json, st, v) == Ok(v)

\* the test for a trailing character, after the whitespace behind the value
TrailingCheck(json, st, v) ==
  IF peek(json, st) # NoChar
  THEN Err(syntax(peek_pos(json, st), <<"trailing character after JSON value", peek(json, st)>>))
  ELSE Ok(v)

\* the `?` on parser.parse() and the skip_whitespace that follows it
AfterValue(json, value) ==
  IF value.k # "ok" THEN value
  ELSE TrailingCheck(json, skip_whitespace(json, value.st), value.v)

\* pub fn parse(json: &str) -> Result<Value>
parse(json) == AfterValue(json, Parser_parse(json, Parser_new))

(***************************************************************************)
(* Built-in carriers (src/src/ser.rs, src/src/de.rs).  A carrier integer   *)
(* is an exact decimal in the same form as a finite f64 (x >= 0).          *)
(***************************************************************************)
IntCarriers == {"i8", "i16", "i32", "i64", "u8", "u16", "u32", "u64"}
FloatCarriers == {"f32", "f64"}

\* T::MIN
MinOf(T) ==
  CASE T = "i8" -> IntLit(TRUE, <<1,2,8>>)
    [] T = "i16" -> IntLit(TRUE, <<3,2,7,6,8>>)
    [] T = "i32" -> IntLit(TRUE, <<2,1,4,7,4,8,3,6,4,8>>)
    [] T = "i64" -> IntLit(TRUE, <<9,2,2,3,3,7,2,0,3,6,8,5,4,7,7,5,8,0,8>>)
    [] OTHER -> Zero

\* T::MAX
MaxOf(T) ==
  CASE T = "i8" -> IntLit(FALSE, <<1,2,7>>)
    [] T = "i16" -> IntLit(FALSE, <<3,2,7,6,7>>)
    [] T = "i32" -> IntLit(FALSE, <<2,1,4,7,4,8,3,6,4,7>>)
    [] T = "i64" -> IntLit(FALSE, <<9,2,2,3,3,7,2,0,3,6,8,5,4,7,7,5,8,0,7>>)
    [] T = "u8" -> IntLit(FALSE, <<2,5,5>>)
    [] T = "u16" -> IntLit(FALSE, <<6,5,5,3,5>>)
    [] T = "u32" -> IntLit(FALSE, <<4,2,9,4,9,6,7,2,9,5>>)
    [] T = "u64" -> IntLit(FALSE, <<1,8,4,4,6,7,4,4,0,7,3,7,0,9,5,5,1,6,1,5>>)

\* the literal 9007199254740991 (2^53 - 1) of ser.rs and de.rs
MaxSafe == IntLit(FALSE, <<9,0,0,7,1,9,9,2,5,4,7,4,0,9,9,1>>)
MinSafe == IntLit(TRUE, <<9,0,0,7,1,9,9,2,5,4,7,4,0,9,9,1>>)

Two53 == IntLit(FALSE, <<9,0,0,7,1,9,9,2,5,4,7,4,0,9,9,2>>)
Two63 == IntLit(FALSE, <<9,2,2,3,3,7,2,0,3,6,8,5,4,7,7,5,8,0,8>>)
Ten19 == IntLit(FALSE, <<1>> \o Zeros(19))

\* the shortest decimals of the f64 values 2^63 and 2^64
F64Two63 == IntLit(FALSE, <<9,2,2,3,3,7,2,0,3,6,8,5,4,7,7,6,0,0,0>>)
F64Two64 == IntLit(FALSE, <<1,8,4,4,6,7,4,4,0,7,3,7,0,9,5,5,2,0,0,0>>)

WithSign(n, neg) == [n EXCEPT !.neg = neg]

\* `x as f64` on an integer: exact up to 2^53 in magnitude; beyond it the
\* nearest f64, given for the integers the model draws (2^63 - 1, 2^63,
\* 2^64 - 1 and the exactly representable 10^19)
IntAsF64(x) ==
  LET m == WithSign(x, FALSE)
  IN IF ~MagLess(Two53, m) THEN x
     ELSE IF m = MaxOf("i64") \/ m = Two63 THEN WithSign(F64Two63, x.neg)
     ELSE IF m = MaxOf("u64") THEN WithSign(F64Two64, x.neg)
     ELSE x

\* f64::trunc
Trunc(n) ==
  IF n.x >= 0 THEN n
  ELSE IF IntLen(n) <= 0 THEN Fin(n.neg, <<>>, 0)
  ELSE Norm(n.neg, SubSeq(n.dg, 1, IntLen(n)), 0)

\* `n as T` for an integer carrier T: truncates, saturates, NaN gives 0
F64AsInt(n, T) ==
  IF n.k = "nan" THEN Zero
  ELSE IF n.k = "inf" THEN (IF n.neg THEN MinOf(T) ELSE MaxOf(T))
  ELSE LET t == Trunc(n)
       IN IF t.dg = <<>> THEN Zero
          ELSE IF F64Lt(t, MinOf(T)) THEN MinOf(T)
          ELSE IF F64Lt(MaxOf(T), t) THEN MaxOf(T)
          ELSE t

\* a range test that forgets the upper bound
OutOfRangeLowerOnly(T, n) ==
  IF T \in {"i8", "i16", "i32"} THEN F64Lt(n, IntAsF64(MinOf(T)))
  ELSE IF T = "i64" THEN F64Lt(n, MinSafe)
  ELSE F64Lt(n, Zero)

\* the range test of each impl Deserialize for an integer carrier
OutOfRange(T, n) ==
  IF T \in {"i8", "i16", "i32"}
  THEN F64Lt(n, IntAsF64(MinOf(T))) \/ F64Lt(IntAsF64(MaxOf(T)), n)
  ELSE IF T = "i64" THEN F64Lt(n, MinSafe) \/ F64Lt(MaxSafe, n)
  ELSE IF T \in {"u8", "u16", "u32"} THEN F64Lt(n, Zero) \/ F64Lt(IntAsF64(MaxOf(T)), n)
  ELSE F64Lt(n, Zero) \/ F64Lt(MaxSafe, n)

\* impl Deserialize for i8 .. u64
deserialize_int(T, value) ==
  IF value.t # "Number" THEN Err(TypeError("expected number"))
  ELSE IF fract_nonzero(value.n) THEN Err(TypeError("expected integer, found float"))
  ELSE IF OutOfRange(T, value.n) THEN Err(TypeError("out of range"))
  ELSE Ok(F64AsInt(value.n, T))

\* impl Serialize for i8 .. u64: only u64 tests the magnitude
serialize_int(T, x) ==
  IF T = "u64" /\ F64Lt(MaxSafe, x) THEN Err(custom("integer too large for JSON"))
  ELSE Ok(Number(IntAsF64(x)))

\* impl Serialize for f32 (widening, no test) and f64 (is_finite test)
serialize_float(T, x) ==
  IF T = "f64" /\ ~is_finite(x) THEN Err(custom("non-finite number cannot be serialized"))
  ELSE Ok(Number(x))

\* Serialize::serialize of a typed source; impl Serialize for Value clones
serialize(src) ==
  IF src.carrier \in IntCarriers THEN serialize_int(src.carrier, src.x)
  ELSE IF src.carrier \in FloatCarriers THEN serialize_float(src.carrier, src.x)
  ELSE Ok(src.x)

\* Deserialize::deserialize for the target carrier
deserialize(T, value) ==
  IF T \in IntCarriers THEN deserialize_int(T, value)
  ELSE Ok(value)

\* pub fn to_string
to_string(value, order) == IF value.k = "ok" THEN Ok(Display(value.v, order)) ELSE value

\* pub fn to_string_pretty
to_string_pretty(value, order) ==
  IF value.k = "ok" THEN Ok(pretty_print(value.v, 0, order)) ELSE value

\* the `?` on parse(json) and T::deserialize of its value
FromValue(T, value) == IF value.k = "ok" THEN deserialize(T, value.v) ELSE value

\* pub fn from_str
from_str(T, json) == FromValue(T, parse(json))

(***************************************************************************)
(* The derive macros (src/fastjson-derive/src/lib.rs): the scan of the     *)
(* declaration text.  Positions are 1-based, 0 stands for None.            *)
(***************************************************************************)
OptNone == [some |-> FALSE]
OptSome(v) == [some |-> TRUE, v |-> v]

\* pattern pat occurs in s at position i
MatchAt(s, i, pat) == i + Len(pat) - 1 <= Len(s) /\ SubSeq(s, i, i + Len(pat) - 1) = pat

\* str::contains
contains(s, pat) == \E i \in 1..Len(s) : MatchAt(s, i, pat)

\* str::find
find(s, pat) ==
  IF contains(s, pat)
  THEN CHOOSE i \in 1..Len(s) : MatchAt(s, i, pat) /\ \A j \in 1..(i - 1) : ~MatchAt(s, j, pat)
  ELSE 0

\* str::rfind
rfind(s, pat) ==
  IF contains(s, pat)
  THEN CHOOSE i \in 1..Len(s) : MatchAt(s, i, pat) /\ \A j \in (i + 1)..Len(s) : ~MatchAt(s, j, pat)
  ELSE 0

\* str::starts_with, str::ends_with
starts_with(s, pat) == MatchAt(s, 1, pat)
ends_with(s, pat) == Len(pat) <= Len(s) /\ MatchAt(s, Len(s) - Len(pat) + 1, pat)

\* str::trim
trim(s) ==
  IF \A i \in 1..Len(s) : is_whitespace(s[i]) THEN <<>>
  ELSE SubSeq(s, CHOOSE i \in 1..Len(s) : ~is_whitespace(s[i])
                                          /\ \A j \in 1..(i - 1) : is_whitespace(s[j]),
                 CHOOSE i \in 1..Len(s) : ~is_whitespace(s[i])
                                          /\ \A j \in (i + 1)..Len(s) : is_whitespace(s[j]))

\* the text behind position p
After(s, p) == SubSeq(s, p + 1, Len(s))

RECURSIVE split(_, _)
\* str::split on one character
split(s, c) ==
  IF ~contains(s, <<c>>) THEN <<s>>
  ELSE <<SubSeq(s, 1, find(s, <<c>>) - 1)>> \o split(After(s, find(s, <<c>>)), c)

\* str::splitn(2, c)
splitn2(s, c) ==
  IF ~contains(s, <<c>>) THEN <<s>>
  ELSE <<SubSeq(s, 1, find(s, <<c>>) - 1), After(s, find(s, <<c>>))>>

\* the last whitespace-separated word of a trimmed, non-empty text
LastWordOf(t) ==
  SubSeq(t, CHOOSE i \in 1..Len(t) : /\ \A j \in i..Len(t) : ~is_whitespace(t[j])
                                    /\ (i = 1 \/ is_whitespace(t[i - 1])),
         Len(t))

\* str::split_whitespace().last().unwrap_or("")
last_word(s) == IF trim(s) = <<>> THEN <<>> ELSE LastWordOf(trim(s))

\* str::lines: split at line feeds, no empty last line
lines(s) ==
  IF s = <<>> THEN <<>>
  ELSE IF s[Len(s)] = Chr["LF"] THEN split(SubSeq(s, 1, Len(s) - 1), Chr["LF"])
  ELSE split(s, Chr["LF"])

\* the text between the first '{' and the first '}' behind it, in a
\* one-element sequence; empty when a brace is missing
Body(input) ==
  IF find(input, Str(<<"{">>)) = 0 \/ find(After(input, find(input, Str(<<"{">>)) - 1), Str(<<"}">>)) = 0 THEN <<>>
  ELSE <<SubSeq(input, find(input, Str(<<"{">>)) + 1,
                find(input, Str(<<"{">>)) + find(After(input, find(input, Str(<<"{">>)) - 1), Str(<<"}">>)) - 2)>>

\* the value between `rename = "` and the next quote
RenameValue(remaining) ==
  IF find(remaining, Str(<<"\"">>)) = 0 THEN OptNone
  ELSE OptSome(SubSeq(remaining, 1, find(remaining, Str(<<"\"">>)) - 1))

\* the rename extraction of extract_struct_fields and extract_single_variant
RenameOf(str) ==
  IF find(str, Str(<<"r", "e", "n", "a", "m", "e", " ", "=", " ", "\"">>)) = 0 THEN OptNone
  ELSE RenameValue(After(str, find(str, Str(<<"r", "e", "n", "a", "m", "e", " ", "=", " ", "\"">>)) + Len(Str(<<"r", "e", "n", "a", "m", "e", " ", "=", " ", "\"">>)) - 1))

\* struct Field
Field(name, rename, skip, skip_if_none, is_option) ==
  [name |-> name, rename |-> rename, skip |-> skip, skip_if_none |-> skip_if_none,
   is_option |-> is_option]

\* one iteration of the loop of extract_struct_fields, on the trimmed text
FieldOfTrimmed(field_str, parts) ==
  IF field_str = <<>> \/ Len(parts) < 2 THEN <<>>
  ELSE <<Field(last_word(parts[1]),
               IF contains(field_str, Str(<<"#", "[", "f", "a", "s", "t", "j", "s", "o", "n">>)) /\ contains(field_str, Str(<<"r", "e", "n", "a", "m", "e", " ", "=">>))
               THEN RenameOf(field_str) ELSE OptNone,
               contains(field_str, Str(<<"#", "[", "f", "a", "s", "t", "j", "s", "o", "n">>))
                 /\ (contains(field_str, Str(<<"s", "k", "i", "p", ")">>)) \/ contains(field_str, Str(<<"s", "k", "i", "p", ",">>))
                     \/ contains(field_str, Str(<<"s", "k", "i", "p", " ", "]">>))),
               contains(field_str, Str(<<"#", "[", "f", "a", "s", "t", "j", "s", "o", "n">>))
                 /\ (contains(field_str, Str(<<"s", "k", "i", "p", "_", "i", "f", "_", "n", "o", "n", "e", ")">>)) \/ contains(field_str, Str(<<"s", "k", "i", "p", "_", "i", "f", "_", "n", "o", "n", "e", ",">>))
                     \/ contains(field_str, Str(<<"s", "k", "i", "p", "_", "i", "f", "_", "n", "o", "n", "e", " ", "]">>))),
               starts_with(trim(parts[2]), Str(<<"O", "p", "t", "i", "o", "n", "<">>)))>>

FieldOf(field_str) == FieldOfTrimmed(trim(field_str), splitn2(trim(field_str), Chr[":"]))

RECURSIVE FieldsOf(_, _)
\* for field_str in body.split(',')
FieldsOf(strs, i) ==
  IF i > Len(strs) THEN <<>> ELSE FieldOf(strs[i]) \o FieldsOf(strs, i + 1)

\* fn extract_struct_fields
extract_struct_fields(input) ==
  IF Body(input) = <<>> THEN <<>> ELSE FieldsOf(split(Body(input)[1], Chr[","]), 1)

\* struct Variant with its VariantKind
Variant(name, rename, kind, types, fields) ==
  [name |-> name, rename |-> rename, kind |-> kind, types |-> types, fields |-> fields]

RECURSIVE NonEmptyTrimmed(_, _)
\* .map(|s| s.trim().to_string()).filter(|s| !s.is_empty())
NonEmptyTrimmed(strs, i) ==
  IF i > Len(strs) THEN <<>>
  ELSE (IF trim(strs[i]) = <<>> THEN <<>> ELSE <<trim(strs[i])>>) \o NonEmptyTrimmed(strs, i + 1)

\* the end of a slice that runs to the last occurrence of c, or to the end
EndAt(def, c) == IF rfind(def, <<c>>) = 0 THEN Len(def) ELSE rfind(def, <<c>>) - 1

\* the kind of extract_single_variant, from the variant definition
KindOf(name, rename, def) ==
  IF contains(def, Str(<<"(">>)) /\ ~contains(def, Str(<<"{">>))
  THEN IF find(def, Str(<<"(">>)) - 1 < EndAt(def, Chr[")"]) /\ find(def, Str(<<"(">>)) > 1
       THEN Variant(name, rename, "Tuple",
                    NonEmptyTrimmed(split(SubSeq(def, find(def, Str(<<"(">>)) + 1, EndAt(def, Chr[")"])),
                                          Chr[","]), 1), <<>>)
       ELSE Variant(name, rename, "Unit", <<>>, <<>>)
  ELSE IF contains(def, Str(<<"{">>))
  THEN IF find(def, Str(<<"{">>)) - 1 < EndAt(def, Chr["}"]) /\ find(def, Str(<<"{">>)) > 1
       THEN Variant(name, rename, "Struct", <<>>,
                    extract_struct_fields(Str(<<"s", "t", "r", "u", "c", "t", " ", "D", "u", "m", "m", "y", " ", "{", " ">>) \o
                                          SubSeq(def, find(def, Str(<<"{">>)) + 1, EndAt(def, Chr["}"]))
                                          \o Str(<<" ", "}">>)))
       ELSE Variant(name, rename, "Unit", <<>>, <<>>)
  ELSE Variant(name, rename, "Unit", <<>>, <<>>)

\* the end of the variant name: the first '(' , else the first '{', else the end
NameEnd(def) ==
  IF find(def, Str(<<"(">>)) # 0 THEN find(def, Str(<<"(">>)) - 1
  ELSE IF find(def, Str(<<"{">>)) # 0 THEN find(def, Str(<<"{">>)) - 1
  ELSE Len(def)

\* extract_single_variant behind its loop over the lines
VariantOfDef(rename, def) ==
  IF def = <<>> THEN <<>>
  ELSE <<KindOf(trim(SubSeq(def, 1, NameEnd(def))), rename, def)>>

RECURSIVE VariantLines(_, _, _, _, _)
\* the loop over the lines of extract_single_variant
VariantLines(ls, i, in_attribute, rename, variant_def) ==
  IF i > Len(ls) THEN VariantOfDef(rename, trim(variant_def))
  ELSE IF in_attribute \/ starts_with(trim(ls[i]), Str(<<"#", "[">>))
       THEN VariantLines(ls, i + 1, ~ends_with(trim(ls[i]), Str(<<"]">>)),
                         IF contains(trim(ls[i]), Str(<<"f", "a", "s", "t", "j", "s", "o", "n">>)) /\ contains(trim(ls[i]), Str(<<"r", "e", "n", "a", "m", "e">>))
                            /\ RenameOf(trim(ls[i])).some
                         THEN RenameOf(trim(ls[i])) ELSE rename,
                         variant_def)
       ELSE VariantLines(ls, i + 1, FALSE, rename, variant_def \o trim(ls[i]) \o Str(<<" ">>))

\* fn extract_single_variant: a one-element sequence, empty for None
extract_single_variant(variant_str) ==
  IF trim(variant_str) = <<>> THEN <<>>
  ELSE VariantLines(lines(trim(variant_str)), 1, FALSE, OptNone, <<>>)

\* the variant of a chunk, when the chunk is not blank
ChunkVariant(current_chunk) ==
  IF trim(current_chunk) = <<>> THEN <<>> ELSE extract_single_variant(current_chunk)

\* brace_count and paren_count behind the character at position i
BraceCount(body, i) ==
  Cardinality({j \in 1..i : body[j] = Chr["{"]}) - Cardinality({j \in 1..i : body[j] = Chr["}"]})
ParenCount(body, i) ==
  Cardinality({j \in 1..i : body[j] = Chr["("]}) - Cardinality({j \in 1..i : body[j] = Chr[")"]})

\* in_attribute at the match on the character at position i: a '#' at or
\* before i with no ']' between it and i (i included)
InAttribute(body, i) ==
  \E j \in 1..i : body[j] = Chr["#"] /\ \A k \in (j + 1)..i : body[k] # Chr["]"]

\* the commas at which the loop of extract_enum_variants ends a chunk
ChunkEnds(body) ==
  {i \in 1..Len(body) : /\ body[i] = Chr[","]
                        /\ BraceCount(body, i) = 0 /\ ParenCount(body, i) = 0
                        /\ ~InAttribute(body, i)}

\* the smallest element of a non-empty set of positions
First(S) == CHOOSE i \in S : \A j \in S : i <= j

RECURSIVE VariantChunks(_, _, _)
\* for c in body.chars(): every other character is pushed to current_chunk,
\* so the chunks are the stretches between those commas; then the last chunk
VariantChunks(body, start, ends) ==
  IF ends = {} THEN ChunkVariant(SubSeq(body, start, Len(body)))
  ELSE ChunkVariant(SubSeq(body, start, First(ends) - 1))
       \o VariantChunks(body, First(ends) + 1, ends \ {First(ends)})

\* fn extract_enum_variants
extract_enum_variants(input) ==
  IF Body(input) = <<>> THEN <<>> ELSE VariantChunks(Body(input)[1], 1, ChunkEnds(Body(input)[1]))

(***************************************************************************)
(* Declarations as the compiler holds them, and the text the macros get.   *)
(***************************************************************************)
\* carriers: a built-in one by name, Option<T>, Vec<T>, a derived type
Prim(n) == [k |-> "prim", n |-> n]
OptionOf(T) == [k |-> "Option", of |-> T]
VecOf(T) == [k |-> "Vec", of |-> T]
MapOf(K, V) == [k |-> "Map", key |-> K, of |-> V]

\* a directive of a #[fastjson(...)] attribute; w is the rename value
Directive(d, w) == [d |-> d, w |-> w]
Skip == Directive("skip", <<>>)
SkipIfNone == Directive("skip_if_none", <<>>)
Rename(w) == Directive("rename", w)

\* a declared field, a declared variant, a declared struct or enum; attrs is
\* a sequence of attributes, an attribute a sequence of directives
DField(name, ty, attrs) == [name |-> name, ty |-> ty, attrs |-> attrs]
DVariant(name, attrs, kind, types, fields) ==
  [name |-> name, attrs |-> attrs, kind |-> kind, types |-> types, fields |-> fields]
DStruct(name, fields) == [k |-> "struct", name |-> name, fields |-> fields]
DEnum(name, variants) == [k |-> "enum", name |-> name, variants |-> variants]

\* the source text of the built-in carriers
PrimText ==
  [n \in {"bool", "String", "u8", "u32", "i64", "u64", "f64"} |->
     CASE n = "bool" -> Str(<<"b", "o", "o", "l">>) [] n = "String" -> Str(<<"S", "t", "r", "i", "n", "g">>) [] n = "u8" -> Str(<<"u", "8">>)
       [] n = "u32" -> Str(<<"u", "3", "2">>) [] n = "i64" -> Str(<<"i", "6", "4">>) [] n = "u64" -> Str(<<"u", "6", "4">>) [] n = "f64" -> Str(<<"f", "6", "4">>)]

RECURSIVE Join(_, _)
\* the texts of strs with sep between them
Join(strs, sep) ==
  IF strs = <<>> THEN <<>>
  ELSE IF Len(strs) = 1 THEN strs[1]
  ELSE strs[1] \o sep \o Join(Tail(strs), sep)

RECURSIVE TypeText(_)
TypeText(T) ==
  IF T.k = "prim" THEN PrimText[T.n]
  ELSE IF T.k = "Option" THEN Str(<<"O", "p", "t", "i", "o", "n", "<">>) \o TypeText(T.of) \o Str(<<">">>)
  ELSE IF T.k = "Vec" THEN Str(<<"V", "e", "c", "<">>) \o TypeText(T.of) \o Str(<<">">>)
  ELSE IF T.k = "Map"
       THEN Str(<<"H", "a", "s", "h", "M", "a", "p", "<">>) \o TypeText(T.key) \o Str(<<",", " ">>) \o TypeText(T.of) \o Str(<<">">>)
  ELSE T.name

DirectiveText(d) ==
  IF d.d = "rename" THEN Str(<<"r", "e", "n", "a", "m", "e", " ", "=", " ", "\"">>) \o d.w \o Str(<<"\"">>)
  ELSE IF d.d = "skip" THEN Str(<<"s", "k", "i", "p">>)
  ELSE Str(<<"s", "k", "i", "p", "_", "i", "f", "_", "n", "o", "n", "e">>)

AttrText(attr) ==
  Str(<<"#", "[", "f", "a", "s", "t", "j", "s", "o", "n", "(">>) \o Join([i \in 1..Len(attr) |-> DirectiveText(attr[i])], Str(<<",", " ">>)) \o Str(<<")", "]">>)

\* what separates an attribute from the item behind it, and an item from the
\* next: one space when the text is laid out on one line, a line feed when
\* every attribute and item has its own line
Sep(layout) == IF layout = "line" THEN Str(<<" ">>) ELSE Str(<<"LF">>)

AttrsText(attrs, layout) ==
  Join([i \in 1..Len(attrs) |-> AttrText(attrs[i]) \o Sep(layout)], <<>>)

FieldText(f, layout) == AttrsText(f.attrs, layout) \o f.name \o Str(<<":", " ">>) \o TypeText(f.ty)

FieldsText(fields, layout) ==
  Join([i \in 1..Len(fields) |-> FieldText(fields[i], layout)], Str(<<",">>) \o Sep(layout))

VariantText(v, layout) ==
  AttrsText(v.attrs, layout) \o v.name \o
  (IF v.kind = "Tuple"
   THEN Str(<<"(">>) \o Join([i \in 1..Len(v.types) |-> TypeText(v.types[i])], Str(<<",", " ">>)) \o Str(<<")">>)
   ELSE IF v.kind = "Struct"
   THEN Str(<<" ", "{">>) \o Sep(layout) \o FieldsText(v.fields, layout) \o Sep(layout) \o Str(<<"}">>)
   ELSE <<>>)

\* input.to_string() of the derive entry points
DeclText(T, layout) ==
  IF T.k = "struct"
  THEN Str(<<"s", "t", "r", "u", "c", "t", " ">>) \o T.name \o Str(<<" ", "{">>) \o Sep(layout) \o FieldsText(T.fields, layout)
       \o Sep(layout) \o Str(<<"}">>)
  ELSE Str(<<"e", "n", "u", "m", " ">>) \o T.name \o Str(<<" ", "{">>) \o Sep(layout)
       \o Join([i \in 1..Len(T.variants) |-> VariantText(T.variants[i], layout)],
               Str(<<",">>) \o Sep(layout))
       \o Sep(layout) \o Str(<<"}">>)

(***************************************************************************)
(* The code the derive macros generate, as it runs.  A record instance is  *)
(* a function from host field names to typed values; a tagged-union        *)
(* instance names its variant and holds the positional data or the named   *)
(* fields.  The carrier of a field is the declared one (type inference).   *)
(***************************************************************************)
MissingField(name) == [kind |-> "MissingField", field |-> name]

\* an instance of a tagged union
UnitOf(name) == [variant |-> name, data |-> <<>>, fields |-> EmptyMap]
TupleOf(name, data) == [variant |-> name, data |-> data, fields |-> EmptyMap]
StructOf(name, fields) == [variant |-> name, data |-> <<>>, fields |-> fields]

\* Default::default() of a carrier
DefaultOf(T) ==
  IF T.k = "Option" THEN OptNone
  ELSE IF T.k = "Vec" THEN <<>>
  ELSE IF T.n = "bool" THEN FALSE
  ELSE IF T.n = "String" THEN <<>>
  ELSE Zero

\* a wire name that forgets the rename directive
ser_name_host(item) == item.name

\* field.rename.unwrap_or_else(|| field_name.clone())
ser_name(item) == IF item.rename.some THEN item.rename.v ELSE item.name

\* the declared field, or variant, of a host name
Declared(items, name) == items[CHOOSE i \in 1..Len(items) : items[i].name = name]

\* the first variant the generator holds under a host name
Held(variants, name) == variants[First({i \in 1..Len(variants) : variants[i].name = name})]

\* the Value keys "type" and "data" of the wire convention
TypeKey == Str(<<"t", "y", "p", "e">>)
DataKey == Str(<<"d", "a", "t", "a">>)

\* an optional decode that forgets the value it decoded
SomeOfAbsent(r) == IF r.k # "ok" THEN r ELSE Ok(OptNone)

\* Some(..) behind the `?` on the inner deserialize
SomeOf(r) == IF r.k # "ok" THEN r ELSE Ok(OptSome(r.v))

RECURSIVE serialize_ty(_, _, _)
RECURSIVE SerItems(_, _, _, _, _)
RECURSIVE SerPush(_, _, _, _, _, _)
RECURSIVE SerFields(_, _, _, _, _, _)
RECURSIVE SerInsert(_, _, _, _, _, _, _)
RECURSIVE generate_struct_serialize(_, _, _, _)
RECURSIVE generate_enum_serialize(_, _, _, _)
RECURSIVE deserialize_ty(_, _, _)
RECURSIVE DeItems(_, _, _, _, _)
RECURSIVE DePush(_, _, _, _, _, _)
RECURSIVE DeFields(_, _, _, _, _, _)
RECURSIVE DeBind(_, _, _, _, _, _, _)
RECURSIVE generate_struct_deserialize(_, _, _, _)
RECURSIVE generate_enum_deserialize(_, _, _, _)

\* Serialize::serialize for a carrier: bool, String, the numeric carriers,
\* Option<T>, Vec<T> and the derived impls
serialize_ty(T, x, layout) ==
  IF T.k = "prim"
  THEN IF T.n = "bool" THEN Ok(Bool(x))
       ELSE IF T.n = "String" THEN Ok(String(x))
       ELSE serialize([carrier |-> T.n, x |-> x])
  ELSE IF T.k = "Option"
  THEN IF x.some THEN serialize_ty(T.of, x.v, layout) ELSE Ok(Null)
  ELSE IF T.k = "Vec" THEN SerItems([i \in 1..Len(x) |-> T.of], x, 1, <<>>, layout)
  ELSE IF T.k = "struct"
  THEN generate_struct_serialize(extract_struct_fields(DeclText(T, layout)), T, x, layout)
  ELSE generate_enum_serialize(extract_enum_variants(DeclText(T, layout)), T, x, layout)

\* vec.push(item.serialize()?) for each item, in order
SerItems(types, xs, i, vec, layout) ==
  IF i > Len(xs) THEN Ok(Array(vec))
  ELSE SerPush(types, xs, i, vec, layout, serialize_ty(types[i], xs[i], layout))

SerPush(types, xs, i, vec, layout, r) ==
  IF r.k # "ok" THEN r ELSE SerItems(types, xs, i + 1, Append(vec, r.v), layout)

\* an encoder that forgets skip_if_none: every field that is not skip is inserted
SerFieldsAlways(fields, i, dfields, x, map, layout) ==
  IF i > Len(fields) THEN Ok(Object(map))
  ELSE IF fields[i].skip THEN SerFields(fields, i + 1, dfields, x, map, layout)
  ELSE SerInsert(fields, i, dfields, x, map, layout,
                 serialize_ty(Declared(dfields, fields[i].name).ty, x[fields[i].name], layout))

\* the statements generated per field, in order: nothing for skip, an
\* `if let Some(val)` for skip_if_none on an Option, else an insert
SerFields(fields, i, dfields, x, map, layout) ==
  IF i > Len(fields) THEN Ok(Object(map))
  ELSE IF fields[i].skip THEN SerFields(fields, i + 1, dfields, x, map, layout)
  ELSE IF fields[i].skip_if_none /\ fields[i].is_option
  THEN IF x[fields[i].name].some
       THEN SerInsert(fields, i, dfields, x, map, layout,
                      serialize_ty(Declared(dfields, fields[i].name).ty.of,
                                   x[fields[i].name].v, layout))
       ELSE SerFields(fields, i + 1, dfields, x, map, layout)
  ELSE SerInsert(fields, i, dfields, x, map, layout,
                 serialize_ty(Declared(dfields, fields[i].name).ty, x[fields[i].name], layout))

\* map.insert("wire name".to_owned(), ...serialize(..)?)
SerInsert(fields, i, dfields, x, map, layout, r) ==
  IF r.k # "ok" THEN r
  ELSE SerFields(fields, i + 1, dfields, x, MapInsert(map, ser_name(fields[i]), r.v), layout)

\* the impl Serialize written by generate_struct_serialize
generate_struct_serialize(fields, T, x, layout) ==
  SerFields(fields, 1, T.fields, x, EmptyMap, layout)

\* a Positional encoding that puts a single element under "data" without the Array
TupleObjectBare(json_name, data) ==
  IF data.k # "ok" THEN data
  ELSE Ok(Object(MapInsert(MapInsert(EmptyMap, TypeKey, String(json_name)), DataKey,
                           IF Len(data.v.a) = 1 THEN data.v.a[1] ELSE data.v)))

\* the Object of a Positional variant, behind the `?` on its data
TupleObject(json_name, data) ==
  IF data.k # "ok" THEN data
  ELSE Ok(Object(MapInsert(MapInsert(EmptyMap, TypeKey, String(json_name)), DataKey, data.v)))

\* the match arm generated for one variant
SerVariant(variant, dvariant, x, layout) ==
  IF variant.kind = "Unit" THEN Ok(String(ser_name(variant)))
  ELSE IF variant.kind = "Tuple"
  THEN TupleObject(ser_name(variant), SerItems(dvariant.types, x.data, 1, <<>>, layout))
  ELSE SerFields(variant.fields, 1, dvariant.fields, x.fields,
                 MapInsert(EmptyMap, TypeKey, String(ser_name(variant))), layout)

\* the impl Serialize written by generate_enum_serialize: match *self
generate_enum_serialize(variants, T, x, layout) ==
  SerVariant(Held(variants, x.variant), Declared(T.variants, x.variant), x, layout)

\* Deserialize::deserialize for a carrier
deserialize_ty(T, value, layout) ==
  IF T.k = "prim"
  THEN IF T.n = "bool"
       THEN (IF value.t = "Bool" THEN Ok(value.b) ELSE Err(TypeError("expected boolean")))
       ELSE IF T.n = "String"
       THEN (IF value.t = "String" THEN Ok(value.s) ELSE Err(TypeError("expected string")))
       ELSE IF T.n \in FloatCarriers
       THEN (IF value.t = "Number" THEN Ok(value.n) ELSE Err(TypeError("expected number")))
       ELSE deserialize(T.n, value)
  ELSE IF T.k = "Option"
  THEN IF value.t = "Null" THEN Ok(OptNone) ELSE SomeOf(deserialize_ty(T.of, value, layout))
  ELSE IF T.k = "Vec"
  THEN IF value.t = "Array"
       THEN DeItems([i \in 1..Len(value.a) |-> T.of], value.a, 1, <<>>, layout)
       ELSE Err(TypeError("expected array"))
  ELSE IF T.k = "struct"
  THEN generate_struct_deserialize(extract_struct_fields(DeclText(T, layout)), T, value, layout)
  ELSE generate_enum_deserialize(extract_enum_variants(DeclText(T, layout)), T, value, layout)

\* result.push(T::deserialize(item)?) for each item, in order
DeItems(types, arr, i, result, layout) ==
  IF i > Len(arr) THEN Ok(result)
  ELSE DePush(types, arr, i, result, layout, deserialize_ty(types[i], arr[i], layout))

DePush(types, arr, i, result, layout, r) ==
  IF r.k # "ok" THEN r ELSE DeItems(types, arr, i + 1, Append(result, r.v), layout)

\* a decoder whose MissingField names the host field, not the wire key
DeFieldsHostName(fields, i, dfields, map, self, layout) ==
  IF i > Len(fields) THEN Ok(self)
  ELSE IF fields[i].skip
  THEN DeBind(fields, i, dfields, map, self, layout,
              Ok(DefaultOf(Declared(dfields, fields[i].name).ty)))
  ELSE IF fields[i].is_option
  THEN IF ser_name(fields[i]) \in DOMAIN map /\ map[ser_name(fields[i])].t # "Null"
       THEN DeBind(fields, i, dfields, map, self, layout,
                   SomeOf(deserialize_ty(Declared(dfields, fields[i].name).ty.of,
                                         map[ser_name(fields[i])], layout)))
       ELSE DeBind(fields, i, dfields, map, self, layout, Ok(OptNone))
  ELSE IF ser_name(fields[i]) \in DOMAIN map
  THEN DeBind(fields, i, dfields, map, self, layout,
              deserialize_ty(Declared(dfields, fields[i].name).ty,
                             map[ser_name(fields[i])], layout))
  ELSE IF fields[i].skip_if_none
  THEN DeBind(fields, i, dfields, map, self, layout,
              Ok(DefaultOf(Declared(dfields, fields[i].name).ty)))
  ELSE Err(MissingField(fields[i].name))

\* the `let field = ...;` generated per field, in order
DeFields(fields, i, dfields, map, self, layout) ==
  IF i > Len(fields) THEN Ok(self)
  ELSE IF fields[i].skip
  THEN DeBind(fields, i, dfields, map, self, layout,
              Ok(DefaultOf(Declared(dfields, fields[i].name).ty)))
  ELSE IF fields[i].is_option
  THEN IF ser_name(fields[i]) \in DOMAIN map /\ map[ser_name(fields[i])].t # "Null"
       THEN DeBind(fields, i, dfields, map, self, layout,
                   SomeOf(deserialize_ty(Declared(dfields, fields[i].name).ty.of,
                                         map[ser_name(fields[i])], layout)))
       ELSE DeBind(fields, i, dfields, map, self, layout, Ok(OptNone))
  ELSE IF ser_name(fields[i]) \in DOMAIN map
  THEN DeBind(fields, i, dfields, map, self, layout,
              deserialize_ty(Declared(dfields, fields[i].name).ty,
                             map[ser_name(fields[i])], layout))
  ELSE IF fields[i].skip_if_none
  THEN DeBind(fields, i, dfields, map, self, layout,
              Ok(DefaultOf(Declared(dfields, fields[i].name).ty)))
  ELSE Err(MissingField(ser_name(fields[i])))

\* the `?` on a field's deserialize, then the next field
DeBind(fields, i, dfields, map, self, layout, r) ==
  IF r.k # "ok" THEN r
  ELSE DeFields(fields, i + 1, dfields, map, MapInsert(self, fields[i].name, r.v), layout)

\* the impl Deserialize written by generate_struct_deserialize
generate_struct_deserialize(fields, T, value, layout) ==
  IF value.t = "Object" THEN DeFields(fields, 1, T.fields, value.o, EmptyMap, layout)
  ELSE Err(TypeError("expected object"))

\* the arms generated for the Unit variants, then the `_` arm
UnitArms(variants, s) ==
  IF \E i \in 1..Len(variants) : variants[i].kind = "Unit" /\ ser_name(variants[i]) = s
  THEN Ok(UnitOf(variants[First({i \in 1..Len(variants) :
                                   variants[i].kind = "Unit" /\ ser_name(variants[i]) = s})].name))
  ELSE Err(TypeError("unknown enum variant"))

\* return Ok(Name(value0, ..)) behind the `?` on each element
TupleDone(name, data) == IF data.k # "ok" THEN data ELSE Ok(TupleOf(name, data.v))

\* return Ok(Name { fields }) behind the `?` on each field
StructDone(name, fields) == IF fields.k # "ok" THEN fields ELSE Ok(StructOf(name, fields.v))

\* an arm that does not compare the length of "data" with the arity
TagArmAnyLength(variant, dvariant, map, layout) ==
  IF variant.kind = "Tuple"
  THEN IF DataKey \in DOMAIN map /\ map[DataKey].t = "Array"
       THEN IF Len(map[DataKey].a) < Len(dvariant.types)
            THEN TupleDone(variant.name,
                           DeItems(SubSeq(dvariant.types, 1, Len(map[DataKey].a)),
                                   map[DataKey].a, 1, <<>>, layout))
            ELSE TupleDone(variant.name,
                           DeItems(dvariant.types,
                                   SubSeq(map[DataKey].a, 1, Len(dvariant.types)),
                                   1, <<>>, layout))
       ELSE Err(TypeError("expected array for enum variant data"))
  ELSE StructDone(variant.name,
                  DeFields(variant.fields, 1, dvariant.fields, map, EmptyMap, layout))

\* the arm generated for a Positional or a Named variant
TagArm(variant, dvariant, map, layout) ==
  IF variant.kind = "Tuple"
  THEN IF DataKey \in DOMAIN map /\ map[DataKey].t = "Array"
       THEN IF Len(map[DataKey].a) # Len(variant.types)
            THEN Err(TypeError("expected array with n element(s)"))
            ELSE TupleDone(variant.name,
                           DeItems(dvariant.types, map[DataKey].a, 1, <<>>, layout))
       ELSE Err(TypeError("expected array for enum variant data"))
  ELSE StructDone(variant.name,
                  DeFields(variant.fields, 1, dvariant.fields, map, EmptyMap, layout))

\* match t.as_str(): the first arm of a Positional or Named variant with
\* that wire name, else the `_` arm
TagArms(variants, dvariants, t, map, layout) ==
  IF \E i \in 1..Len(variants) : variants[i].kind # "Unit" /\ ser_name(variants[i]) = t
  THEN TagArm(variants[First({i \in 1..Len(variants) :
                                variants[i].kind # "Unit" /\ ser_name(variants[i]) = t})],
              Declared(dvariants,
                       variants[First({i \in 1..Len(variants) :
                                         variants[i].kind # "Unit"
                                         /\ ser_name(variants[i]) = t})].name),
              map, layout)
  ELSE Err(TypeError("unknown enum variant type"))

\* the impl Deserialize written by generate_enum_deserialize
generate_enum_deserialize(variants, T, value, layout) ==
  IF value.t = "String" THEN UnitArms(variants, value.s)
  ELSE IF value.t = "Object"
  THEN IF TypeKey \in DOMAIN value.o /\ value.o[TypeKey].t = "String"
       THEN TagArms(variants, T.variants, value.o[TypeKey].s, value.o, layout)
       ELSE Err(MissingField(TypeKey))
  ELSE Err(TypeError("expected string or object for enum"))

(***************************************************************************)
(* Inputs.                                                                 *)
(***************************************************************************)
\* the pieces a caller's text is assembled from
KeywordPieces ==
  {Str(<<"n", "u", "l", "l">>), Str(<<"t", "r", "u", "e">>), Str(<<"f", "a", "l", "s", "e">>)}
NumberPieces == {Str(<<"4", "2">>), Str(<<"1", "e", "4", "0", "0">>)}
StringPieces == {Str(<<"\"", "a", "\"">>)}
JsonWsPieces == {Str(<<" ">>), Str(<<"LF">>)}
OtherWsPieces == {Str(<<"NBSP">>)}
PunctPieces == {Str(<<"[">>), Str(<<"]">>), Str(<<"{">>), Str(<<"}">>), Str(<<",">>), Str(<<":">>)}
JunkPieces == {Str(<<"t">>), Str(<<"x">>), Str(<<"EURO">>)}

Pieces ==
  KeywordPieces \cup NumberPieces \cup StringPieces \cup JsonWsPieces \cup OtherWsPieces
  \cup PunctPieces \cup JunkPieces

PieceSeqs == UNION {[1..n -> Pieces] : n \in 0..MaxPieces}

RECURSIVE Concat(_)
Concat(ps) == IF ps = <<>> THEN <<>> ELSE Head(ps) \o Concat(Tail(ps))

\* numbers a Value may hold
One5 == Fin(FALSE, <<1, 5>>, 0 - 1)
Forty2 == IntLit(FALSE, <<4, 2>>)
FiniteNumbers == {One5, IntLit(TRUE, <<2, 0>>)}
NonFiniteNumbers == {Inf(FALSE), Inf(TRUE), NaN}

Keys == {Str(<<"a">>), Str(<<"b", "\"">>)}
KeyOrders == {o \in [1..Cardinality(Keys) -> Keys] : \A i, j \in DOMAIN o : i # j => o[i] # o[j]}

Leaves ==
  {Null, Bool(TRUE), Bool(FALSE), String(Str(<<"a", "\"", "LF">>)), String(<<>>)}
  \cup {Number(n) : n \in FiniteNumbers}

RECURSIVE Deep(_)
\* values nested to depth d, one child per container
Deep(d) ==
  IF d = 0 THEN Leaves
  ELSE LET inner == Deep(d - 1)
       IN inner \cup {Array(<<v>>) : v \in inner}
          \cup {Object(MapInsert(EmptyMap, k, v)) : k \in Keys, v \in inner}

\* containers of up to w leaves
Wide(w) ==
  {Array(a) : a \in UNION {[1..n -> Leaves] : n \in 0..w}}
  \cup {Object(o) : o \in UNION {[S -> Leaves] : S \in {S \in SUBSET Keys : Cardinality(S) <= w}}}

\* values that break the invariant "a Number is finite"
NonFiniteValues ==
  {Number(n) : n \in NonFiniteNumbers}
  \cup {Array(<<Number(Inf(FALSE))>>), Object(MapInsert(EmptyMap, Str(<<"a">>), Number(NaN)))}

\* Strings that hold a control character without a short escape
ControlValues == {String(Str(<<"SOH">>)), Array(<<String(Str(<<"a", "SOH">>))>>)}

ValuesIn == Deep(MaxDepth) \cup Wide(MaxWidth) \cup NonFiniteValues \cup ControlValues

\* the f64 values handed to the integer decoders
NumbersIn ==
  {Zero, Fin(TRUE, <<>>, 0), One5, Fin(TRUE, <<5>>, 0 - 1), Forty2, IntLit(FALSE, <<3,0,0>>)}
  \cup UNION {{MinOf(T), MaxOf(T)} : T \in {"i8", "i16", "i32", "u8", "u16", "u32"}}
  \cup {IntLit(TRUE, <<1,2,9>>), IntLit(FALSE, <<1,2,8>>), IntLit(FALSE, <<2,5,6>>),
        IntLit(TRUE, <<1>>), IntLit(TRUE, <<3,2,7,6,9>>), IntLit(FALSE, <<3,2,7,6,8>>),
        IntLit(FALSE, <<6,5,5,3,6>>), IntLit(TRUE, <<2,1,4,7,4,8,3,6,4,9>>),
        IntLit(FALSE, <<2,1,4,7,4,8,3,6,4,8>>), IntLit(FALSE, <<4,2,9,4,9,6,7,2,9,6>>)}
  \cup {MaxSafe, MinSafe, Two53, WithSign(Two53, TRUE), F64Two63, WithSign(F64Two63, TRUE),
        F64Two64, Ten19}
  \cup NonFiniteNumbers

DecodeValuesIn ==
  {Number(n) : n \in NumbersIn}
  \cup {Null, Bool(TRUE), String(Str(<<"4", "2">>)), Array(<<Number(Forty2)>>)}

\* the integers handed to the integer encoders, per carrier
IntsOf(T) ==
  {MinOf(T), MaxOf(T), Zero, Forty2}
  \cup (IF T = "i64" THEN {MaxSafe, MinSafe, Two53, WithSign(Two53, TRUE)} ELSE {})
  \cup (IF T = "u64" THEN {MaxSafe, Two53, Ten19} ELSE {})

FloatsIn == {One5, Zero, Forty2} \cup NonFiniteNumbers

TypedIn ==
  UNION {{[carrier |-> T, x |-> x] : x \in IntsOf(T)} : T \in IntCarriers}
  \cup {[carrier |-> T, x |-> x] : T \in FloatCarriers, x \in FloatsIn}
  \cup {[carrier |-> "Value", x |-> v] : v \in ValuesIn}

\* texts handed to from_str with an integer target
FromStrTexts ==
  {Str(<<"3", "0", "0">>), Str(<<"4", "2", ".", "5">>), Str(<<"4", "2">>),
   Str(<<" ", "4", "2", " ">>), Str(<<"-", "1">>), Str(<<"t", "r", "u", "e">>),
   Str(<<"1", "e", "4", "0", "0">>), Str(<<"4", "2", " ", "x">>)}

\* object literals that may repeat a key: the tokens of up to MaxPairs pairs
PairKeys == {Str(<<"\"", "a", "\"">>), Str(<<"\"", "b", "\"">>)}
PairValues == {Str(<<"4", "2">>), Str(<<"\"", "x", "\"">>), Str(<<"t", "r", "u", "e">>)}
PairSeqs == UNION {[1..n -> PairKeys \X PairValues] : n \in 0..MaxPairs}

RECURSIVE PairTokens(_, _)
\* "k" : v , "k" : v ...
PairTokens(ps, i) ==
  IF i > Len(ps) THEN <<>>
  ELSE (IF i = 1 THEN <<>> ELSE <<Str(<<",">>)>>) \o <<ps[i][1], Str(<<":">>), ps[i][2]>> \o PairTokens(ps, i + 1)

ObjectTokens(ps) == <<Str(<<"{">>)>> \o PairTokens(ps, 1) \o <<Str(<<"}">>)>>

\* texts that stop short: opened containers, keys and colons, and at the end
\* possibly a string or a \u escape that is never closed
OpenStringPieces == {Str(<<"\"", "a">>), Str(<<"\"", "\\", "u", "0", "0">>)}
OpenPieces ==
  {Str(<<"[">>), Str(<<"{">>), Str(<<"\"", "a", "\"">>), Str(<<":">>), Str(<<",">>), Str(<<"4", "2">>), Str(<<" ">>)}
  \cup OpenStringPieces
OpenPieceSeqs == UNION {[1..n -> OpenPieces] : n \in 0..MaxPieces}

\* string literals written with escapes: up to MaxEscapes units between the quotes
ListedEscapes ==
  {Str(<<"\\", "\"">>), Str(<<"\\", "\\">>), Str(<<"\\", "/">>),
   Str(<<"\\", "n">>), Str(<<"\\", "r">>), Str(<<"\\", "t">>), Str(<<"\\", "b">>), Str(<<"\\", "f">>),
   Str(<<"\\", "u", "0", "0", "4", "1">>), Str(<<"\\", "u", "0", "0", "e", "9">>),
   Str(<<"\\", "u", "0", "0", "E", "9">>)}
OtherEscapes == {Str(<<"\\", "x">>), Str(<<"\\", "a">>), Str(<<"\\", "0">>)}
EscapeUnits == ListedEscapes \cup OtherEscapes \cup {Str(<<"a">>)}
EscapeTokens ==
  {<<Quote>> \o us \o <<Quote>> : us \in UNION {[1..n -> EscapeUnits] : n \in 1..MaxEscapes}}

\* texts written with the characters of numbers, up to MaxChars of them
NumberChars == {Str(<<"-">>), Str(<<"+">>), Str(<<"0">>), Str(<<"1">>), Str(<<".">>), Str(<<"e">>), Str(<<"E">>)}
NumberTexts == UNION {[1..n -> NumberChars] : n \in 1..MaxChars}

(***************************************************************************)
(* Declarations, instances and Values for the derived impls.               *)
(***************************************************************************)
RECURSIVE Rec(_)
\* the map with the given <<key, value>> pairs
Rec(pairs) ==
  IF pairs = <<>> THEN EmptyMap
  ELSE MapInsert(Rec(SubSeq(pairs, 1, Len(pairs) - 1)), pairs[Len(pairs)][1],
                 pairs[Len(pairs)][2])

\* struct P { n: String, g: u32, b: bool, #[fastjson(rename = "w")] e: Option<String>,
\*            #[fastjson(skip)] i: Option<u64> }   (Person of tests/lib.rs)
PersonDecl ==
  DStruct(Str(<<"P">>), <<DField(Str(<<"n">>), Prim("String"), <<>>), DField(Str(<<"g">>), Prim("u32"), <<>>),
                 DField(Str(<<"b">>), Prim("bool"), <<>>),
                 DField(Str(<<"e">>), OptionOf(Prim("String")), <<<<Rename(Str(<<"w">>))>>>>),
                 DField(Str(<<"i">>), OptionOf(Prim("u64")), <<<<Skip>>>>)>>)

PersonInstances ==
  {Rec(<<<<Str(<<"n">>), Str(<<"x">>)>>, <<Str(<<"g">>), Forty2>>, <<Str(<<"b">>), TRUE>>, <<Str(<<"e">>), e>>, <<Str(<<"i">>), i>>>>) :
     e \in {OptNone, OptSome(Str(<<"a">>))}, i \in {OptNone, OptSome(Forty2)}}

\* struct Q { #[fastjson(skip_if_none)] c: Option<u32>, o: Option<u32>,
\*            #[fastjson(skip_if_none)] d: u32, k: i64 }
OptionalsDecl ==
  DStruct(Str(<<"Q">>), <<DField(Str(<<"c">>), OptionOf(Prim("u32")), <<<<SkipIfNone>>>>),
                 DField(Str(<<"o">>), OptionOf(Prim("u32")), <<>>),
                 DField(Str(<<"d">>), Prim("u32"), <<<<SkipIfNone>>>>),
                 DField(Str(<<"k">>), Prim("i64"), <<>>)>>)

OptionalsInstances ==
  {Rec(<<<<Str(<<"c">>), c>>, <<Str(<<"o">>), o>>, <<Str(<<"d">>), Forty2>>, <<Str(<<"k">>), k>>>>) :
     c \in {OptNone, OptSome(Forty2)}, o \in {OptNone, OptSome(Forty2)}, k \in {Forty2, Two53}}

\* struct T { t: String }  and  struct N { t: String, v: Vec<u8>, q: T }
InnerDecl == DStruct(Str(<<"T">>), <<DField(Str(<<"t">>), Prim("String"), <<>>)>>)
NestedDecl ==
  DStruct(Str(<<"N">>), <<DField(Str(<<"t">>), Prim("String"), <<>>), DField(Str(<<"v">>), VecOf(Prim("u8")), <<>>),
                 DField(Str(<<"q">>), InnerDecl, <<>>)>>)

NestedInstances ==
  {Rec(<<<<Str(<<"t">>), Str(<<"a">>)>>, <<Str(<<"v">>), v>>, <<Str(<<"q">>), Rec(<<<<Str(<<"t">>), Str(<<"x">>)>>>>)>>>>) :
     v \in {<<>>, <<Forty2, Zero>>}}

\* enum E { Active, Inactive, Pending(String), Pair(u8, String),
\*          Custom { c: u32, m: Option<String> } }
\* (Status of tests/lib.rs, with a second Positional variant)
StatusDecl ==
  DEnum(Str(<<"E">>), <<DVariant(Str(<<"A", "c", "t", "i", "v", "e">>), <<>>, "Unit", <<>>, <<>>),
               DVariant(Str(<<"I", "n", "a", "c", "t", "i", "v", "e">>), <<>>, "Unit", <<>>, <<>>),
               DVariant(Str(<<"P", "e", "n", "d", "i", "n", "g">>), <<>>, "Tuple", <<Prim("String")>>, <<>>),
               DVariant(Str(<<"P", "a", "i", "r">>), <<>>, "Tuple", <<Prim("u8"), Prim("String")>>, <<>>),
               DVariant(Str(<<"C", "u", "s", "t", "o", "m">>), <<>>, "Struct", <<>>,
                        <<DField(Str(<<"c">>), Prim("u32"), <<>>),
                          DField(Str(<<"m">>), OptionOf(Prim("String")), <<>>)>>)>>)

StatusInstances ==
  {UnitOf(Str(<<"A", "c", "t", "i", "v", "e">>)), UnitOf(Str(<<"I", "n", "a", "c", "t", "i", "v", "e">>)), TupleOf(Str(<<"P", "e", "n", "d", "i", "n", "g">>), <<Str(<<"a">>)>>),
   TupleOf(Str(<<"P", "a", "i", "r">>), <<Forty2, Str(<<"a">>)>>)}
  \cup {StructOf(Str(<<"C", "u", "s", "t", "o", "m">>), Rec(<<<<Str(<<"c">>), Forty2>>, <<Str(<<"m">>), m>>>>)) : m \in {OptNone, OptSome(Str(<<"a">>))}}

\* enum D { Off, On { c: u32, #[fastjson(skip_if_none)] m: Option<String>,
\*                    #[fastjson(skip)] s: u8, #[fastjson(rename = "w")] r: String } }
\* (a Named variant whose fields carry the directives of Person and TestOptional)
SwitchDecl ==
  DEnum(Str(<<"D">>), <<DVariant(Str(<<"O", "f", "f">>), <<>>, "Unit", <<>>, <<>>),
               DVariant(Str(<<"O", "n">>), <<>>, "Struct", <<>>,
                        <<DField(Str(<<"c">>), Prim("u32"), <<>>),
                          DField(Str(<<"m">>), OptionOf(Prim("String")), <<<<SkipIfNone>>>>),
                          DField(Str(<<"s">>), Prim("u8"), <<<<Skip>>>>),
                          DField(Str(<<"r">>), Prim("String"), <<<<Rename(Str(<<"w">>))>>>>)>>)>>)

SwitchInstances ==
  {UnitOf(Str(<<"O", "f", "f">>))}
  \cup {StructOf(Str(<<"O", "n">>), Rec(<<<<Str(<<"c">>), Forty2>>, <<Str(<<"m">>), m>>, <<Str(<<"s">>), s>>, <<Str(<<"r">>), Str(<<"a">>)>>>>)) :
          m \in {OptNone, OptSome(Str(<<"a">>))}, s \in {Zero, Forty2}}

\* enum K { #[fastjson(rename = "red")] Red, Green,
\*          #[fastjson(rename = "cc")] Custom(String),
\*          #[fastjson(rename = "rgb")] Rgb { r: u8, g: u8 } }
\* (ColorChoice of tests/lib.rs)
ColorDecl ==
  DEnum(Str(<<"K">>), <<DVariant(Str(<<"R", "e", "d">>), <<<<Rename(Str(<<"r", "e", "d">>))>>>>, "Unit", <<>>, <<>>),
               DVariant(Str(<<"G", "r", "e", "e", "n">>), <<>>, "Unit", <<>>, <<>>),
               DVariant(Str(<<"C", "u", "s", "t", "o", "m">>), <<<<Rename(Str(<<"c", "c">>))>>>>, "Tuple", <<Prim("String")>>, <<>>),
               DVariant(Str(<<"R", "g", "b">>), <<<<Rename(Str(<<"r", "g", "b">>))>>>>, "Struct", <<>>,
                        <<DField(Str(<<"r">>), Prim("u8"), <<>>), DField(Str(<<"g">>), Prim("u8"), <<>>)>>)>>)

ColorInstances ==
  {UnitOf(Str(<<"R", "e", "d">>)), UnitOf(Str(<<"G", "r", "e", "e", "n">>)), TupleOf(Str(<<"C", "u", "s", "t", "o", "m">>), <<Str(<<"a">>)>>),
   StructOf(Str(<<"R", "g", "b">>), Rec(<<<<Str(<<"r">>), Forty2>>, <<Str(<<"g">>), Zero>>>>))}

Decls == {PersonDecl, OptionalsDecl, NestedDecl, StatusDecl, SwitchDecl, ColorDecl}

InstancesOf(T) ==
  IF T = PersonDecl THEN PersonInstances
  ELSE IF T = OptionalsDecl THEN OptionalsInstances
  ELSE IF T = NestedDecl THEN NestedInstances
  ELSE IF T = StatusDecl THEN StatusInstances
  ELSE IF T = SwitchDecl THEN SwitchInstances
  ELSE ColorInstances

\* Declarations that are only built: the macros expand on them.
\* enum S { Circle { r: u32 }, Point, Square(u32) }   (the Named variant first)
ShapeDecl ==
  DEnum(Str(<<"S">>), <<DVariant(Str(<<"C", "i", "r", "c", "l", "e">>), <<>>, "Struct", <<>>, <<DField(Str(<<"r">>), Prim("u32"), <<>>)>>),
               DVariant(Str(<<"P", "o", "i", "n", "t">>), <<>>, "Unit", <<>>, <<>>),
               DVariant(Str(<<"S", "q", "u", "a", "r", "e">>), <<>>, "Tuple", <<Prim("u32")>>, <<>>)>>)

\* enum M { Idle, Move { x: u8, y: u8 }, Stop(u8, u8) }   (the Named variant in the middle)
MotionDecl ==
  DEnum(Str(<<"M">>), <<DVariant(Str(<<"I", "d", "l", "e">>), <<>>, "Unit", <<>>, <<>>),
               DVariant(Str(<<"M", "o", "v", "e">>), <<>>, "Struct", <<>>,
                        <<DField(Str(<<"x">>), Prim("u8"), <<>>), DField(Str(<<"y">>), Prim("u8"), <<>>)>>),
               DVariant(Str(<<"S", "t", "o", "p">>), <<>>, "Tuple", <<Prim("u8"), Prim("u8")>>, <<>>)>>)

\* struct H { m: HashMap<String, u32>, v: Vec<Option<u8>>, o: Option<Vec<u8>>,
\*            #[fastjson(skip)] p: Option<HashMap<String, u8>> }
\* (carriers with comma-separated arguments and nested brackets)
GenericDecl ==
  DStruct(Str(<<"H">>), <<DField(Str(<<"m">>), MapOf(Prim("String"), Prim("u32")), <<>>),
                 DField(Str(<<"v">>), VecOf(OptionOf(Prim("u8"))), <<>>),
                 DField(Str(<<"o">>), OptionOf(VecOf(Prim("u8"))), <<>>),
                 DField(Str(<<"p">>), OptionOf(MapOf(Prim("String"), Prim("u8"))), <<<<Skip>>>>)>>)

\* struct G { a: u8, #[fastjson(rename = "x", skip_if_none)] o: Option<u8>,
\*            #[fastjson(skip_if_none)] #[fastjson(rename = "y")] b: Option<u8> }
\* (an attribute that lists two directives, and two attributes on a field)
DirectivesDecl ==
  DStruct(Str(<<"G">>), <<DField(Str(<<"a">>), Prim("u8"), <<>>),
                 DField(Str(<<"o">>), OptionOf(Prim("u8")), <<<<Rename(Str(<<"x">>)), SkipIfNone>>>>),
                 DField(Str(<<"b">>), OptionOf(Prim("u8")), <<<<SkipIfNone>>, <<Rename(Str(<<"y">>))>>>>)>>)

\* enum Z { Constructed, Plain }   (a variant name that holds the word struct)
\* struct Y { enumerated: u8 }     (a field name that holds the word enum)
ConstructedDecl ==
  DEnum(Str(<<"Z">>), <<DVariant(Str(<<"C", "o", "n", "s", "t", "r", "u", "c", "t", "e", "d">>), <<>>, "Unit", <<>>, <<>>),
               DVariant(Str(<<"P", "l", "a", "i", "n">>), <<>>, "Unit", <<>>, <<>>)>>)
EnumeratedDecl == DStruct(Str(<<"Y">>), <<DField(Str(<<"e", "n", "u", "m", "e", "r", "a", "t", "e", "d">>), Prim("u8"), <<>>)>>)

BuildDecls ==
  {ShapeDecl, MotionDecl, GenericDecl, DirectivesDecl, ConstructedDecl, EnumeratedDecl}

\* the layouts TokenStream::to_string may give the declaration
Layouts == {"line", "own"}

\* a map without one key
DropKey(o, key) == [k \in (DOMAIN o) \ {key} |-> o[k]]

\* what a caller may do to a key of an Object: leave it out, or put Null or
\* a Value of another shape under it; or add a key no field has
Changes(base) ==
  {base}
  \cup {DropKey(base, k) : k \in DOMAIN base}
  \cup {MapInsert(base, k, v) : k \in DOMAIN base, v \in {Null, Bool(TRUE)}}
  \cup {MapInsert(base, Str(<<"z">>), Number(Forty2))}

\* the Objects a decoder may be handed: up to MaxChanges changes to one it accepts
RECURSIVE Changed(_, _)
Changed(base, n) ==
  IF n = 0 THEN {base} ELSE UNION {Changes(o) : o \in Changed(base, n - 1)}
Variations(base) == Changed(base, MaxChanges)

\* the Arrays a caller may put under "data"
DataArrays ==
  {Array(<<>>), Array(<<String(Str(<<"a">>))>>), Array(<<Number(Forty2), String(Str(<<"a">>))>>),
   Array(<<Number(Forty2), String(Str(<<"a">>)), Null>>)}

OtherShapes == {Null, Bool(TRUE), Number(Forty2), Array(<<>>), String(Str(<<"N", "o", "p", "e">>))}

PersonObject ==
  Rec(<<<<Str(<<"n">>), String(Str(<<"x">>))>>, <<Str(<<"g">>), Number(Forty2)>>, <<Str(<<"b">>), Bool(TRUE)>>,
        <<Str(<<"w">>), String(Str(<<"a">>))>>, <<Str(<<"i">>), Number(Forty2)>>>>)
OptionalsObject ==
  Rec(<<<<Str(<<"c">>), Number(Forty2)>>, <<Str(<<"o">>), Number(Forty2)>>, <<Str(<<"d">>), Number(Forty2)>>,
        <<Str(<<"k">>), Number(Forty2)>>>>)
NestedObject ==
  Rec(<<<<Str(<<"t">>), String(Str(<<"a">>))>>, <<Str(<<"v">>), Array(<<Number(Forty2)>>)>>,
        <<Str(<<"q">>), Object(Rec(<<<<Str(<<"t">>), String(Str(<<"x">>))>>>>))>>>>)
CustomObject ==
  Rec(<<<<TypeKey, String(Str(<<"C", "u", "s", "t", "o", "m">>))>>, <<Str(<<"c">>), Number(Forty2)>>, <<Str(<<"m">>), String(Str(<<"a">>))>>>>)
OnObject ==
  Rec(<<<<TypeKey, String(Str(<<"O", "n">>))>>, <<Str(<<"c">>), Number(Forty2)>>, <<Str(<<"m">>), String(Str(<<"a">>))>>,
        <<Str(<<"s">>), Number(Forty2)>>, <<Str(<<"w">>), String(Str(<<"a">>))>>, <<Str(<<"r">>), String(Str(<<"a">>))>>>>)
RgbObject ==
  Rec(<<<<TypeKey, String(Str(<<"r", "g", "b">>))>>, <<Str(<<"r">>), Number(Forty2)>>, <<Str(<<"g">>), Number(Zero)>>>>)

\* {"type": tag, "data": data}
Tagged(tag, data) == Rec(<<<<TypeKey, String(tag)>>, <<DataKey, data>>>>)

\* the Values handed to the derived decoder of a declaration
DeriveValuesIn(T) ==
  OtherShapes \cup
  (IF T = PersonDecl THEN {Object(o) : o \in Variations(PersonObject)}
   ELSE IF T = OptionalsDecl THEN {Object(o) : o \in Variations(OptionalsObject)}
   ELSE IF T = NestedDecl THEN {Object(o) : o \in Variations(NestedObject)}
   ELSE IF T = StatusDecl
   THEN {String(Str(<<"A", "c", "t", "i", "v", "e">>)), String(Str(<<"I", "n", "a", "c", "t", "i", "v", "e">>)), String(Str(<<"P", "e", "n", "d", "i", "n", "g">>))}
        \cup {Object(o) : o \in Variations(CustomObject)}
        \cup {Object(Tagged(t, d)) : t \in {Str(<<"P", "e", "n", "d", "i", "n", "g">>), Str(<<"P", "a", "i", "r">>), Str(<<"A", "c", "t", "i", "v", "e">>), Str(<<"N", "o", "p", "e">>)},
                                     d \in DataArrays \cup {String(Str(<<"a">>))}}
        \cup {Object(DropKey(Tagged(t, Array(<<>>)), DataKey)) : t \in {Str(<<"P", "e", "n", "d", "i", "n", "g">>), Str(<<"A", "c", "t", "i", "v", "e">>)}}
        \cup {Object(Rec(<<<<TypeKey, Number(Forty2)>>, <<DataKey, Array(<<String(Str(<<"a">>))>>)>>>>))}
   ELSE IF T = SwitchDecl
   THEN {String(Str(<<"O", "f", "f">>)), String(Str(<<"O", "n">>))}
        \cup {Object(o) : o \in Variations(OnObject)}
        \cup {Object(MapInsert(OnObject, TypeKey, String(Str(<<"w">>))))}
   ELSE {String(Str(<<"r", "e", "d">>)), String(Str(<<"R", "e", "d">>)), String(Str(<<"G", "r", "e", "e", "n">>)), String(Str(<<"c", "c">>))}
        \cup {Object(o) : o \in Variations(RgbObject)}
        \cup {Object(MapInsert(RgbObject, TypeKey, String(Str(<<"R", "g", "b">>))))}
        \cup {Object(Tagged(t, d)) : t \in {Str(<<"c", "c">>), Str(<<"C", "u", "s", "t", "o", "m">>)}, d \in DataArrays})

\* every key of these Values, listed in some order and in the reverse order:
\* the iteration orders of the HashMaps of a run over derived types
KeyListing ==
  <<TypeKey, DataKey, Str(<<"n">>), Str(<<"g">>), Str(<<"b">>), Str(<<"w">>), Str(<<"e">>), Str(<<"i">>), Str(<<"c">>), Str(<<"o">>), Str(<<"d">>), Str(<<"k">>), Str(<<"t">>), Str(<<"v">>), Str(<<"q">>),
    Str(<<"m">>), Str(<<"s">>), Str(<<"r">>), Str(<<"z">>)>>
DeriveOrders == {KeyListing, [i \in DOMAIN KeyListing |-> KeyListing[Len(KeyListing) + 1 - i]]}

(***************************************************************************)
(* The derive macros at build time.                                        *)
(***************************************************************************)
\* derive_serialize / derive_deserialize: the generator is chosen by the
\* words the declaration text contains
derive_items(input_str) ==
  IF contains(input_str, Str(<<"s", "t", "r", "u", "c", "t">>))
  THEN [k |-> "struct", items |-> extract_struct_fields(input_str)]
  ELSE IF contains(input_str, Str(<<"e", "n", "u", "m">>))
  THEN [k |-> "enum", items |-> extract_enum_variants(input_str)]
  ELSE [k |-> "compile_error", items |-> <<>>]

\* the host names of a sequence of fields or variants
NamesOf(items) == {items[i].name : i \in 1..Len(items)}

\* a variant the generator holds is a variant of the declaration: the
\* patterns and constructors generated from it name its shape
MatchesDeclared(variant, dvariants) ==
  \E j \in 1..Len(dvariants) :
    /\ dvariants[j].name = variant.name
    /\ dvariants[j].kind = variant.kind
    /\ Len(dvariants[j].types) = Len(variant.types)
    /\ NamesOf(dvariants[j].fields) = NamesOf(variant.fields)

\* the generated impl Serialize is accepted by the compiler: every field it
\* reads exists, and `match *self` has an arm for every variant
CompilesSerialize(T, expansion) ==
  /\ expansion.k = T.k
  /\ IF T.k = "struct" THEN NamesOf(expansion.items) \subseteq NamesOf(T.fields)
     ELSE /\ \A i \in 1..Len(expansion.items) : MatchesDeclared(expansion.items[i], T.variants)
          /\ NamesOf(T.variants) \subseteq NamesOf(expansion.items)

\* the generated impl Deserialize is accepted by the compiler: the struct
\* literal names every field, and every variant it builds exists
CompilesDeserialize(T, expansion) ==
  /\ expansion.k = T.k
  /\ IF T.k = "struct" THEN NamesOf(expansion.items) = NamesOf(T.fields)
     ELSE \A i \in 1..Len(expansion.items) : MatchesDeclared(expansion.items[i], T.variants)

\* #[derive(Serialize, Deserialize)] on a declaration
Expansion(T, layout) ==
  [k |-> "expanded",
   gen |-> derive_items(DeclText(T, layout)).k,
   items |-> derive_items(DeclText(T, layout)).items,
   ser |-> CompilesSerialize(T, derive_items(DeclText(T, layout))),
   de |-> CompilesDeserialize(T, derive_items(DeclText(T, layout)))]

\* x.serialize() for the caller's typed value
serialize_src(s, T, expansion, layout) ==
  IF s.carrier # "derive" THEN serialize(s)
  ELSE IF T.k = "struct" THEN generate_struct_serialize(expansion.items, T, s.x, layout)
  ELSE generate_enum_serialize(expansion.items, T, s.x, layout)

\* T::deserialize(value) for the caller's target
deserialize_target(carrier, T, expansion, layout, v) ==
  IF carrier # "derive" THEN deserialize(carrier, v)
  ELSE IF T.k = "struct" THEN generate_struct_deserialize(expansion.items, T, v, layout)
  ELSE generate_enum_deserialize(expansion.items, T, v, layout)

\* the `?` of from_str on the result of parse, then T::deserialize
DeserializeParsed(carrier, T, expansion, layout, r) ==
  IF r.k # "ok" THEN r ELSE deserialize_target(carrier, T, expansion, layout, r.v)

(***************************************************************************)
(* State: one use of the library by a caller.                              *)
(***************************************************************************)
VARIABLES
  src,      \* the typed value the caller serializes, or None
  value,    \* the Result<Value> in hand (from serialize or from the caller), or None
  order,    \* the iteration order of the HashMaps of this run
  text,     \* the Result<String> in hand (from an emitter or from the caller), or None
  form,     \* "compact", "pretty" or "given": where text comes from
  pieces,   \* the pieces a given text was assembled from
  parsed,   \* the result of parse, or None
  target,   \* the carrier the caller decodes into, or "none"
  decoded,  \* the result of deserialize / from_str, or None
  decl,     \* the declaration the derives are put on, or None
  layout,   \* how the compiler lays the declaration out as text, or "none"
  spec,     \* what the derive macros made of the declaration, or None
  parser,   \* the Parser of a parse followed step by step: chars (i) and pos; or None
  frames,   \* the calls of that parse that have not returned, the running one last
  ret       \* what the call that returned last handed back: "ok", "err", or "none"

vars == <<src, value, order, text, form, pieces, parsed, target, decoded, decl, layout, spec,
          parser, frames, ret>>

None == [k |-> "none"]

AnOrder == CHOOSE o \in KeyOrders : TRUE

\* the caller holds a typed value (a Value included)
InitTyped ==
  /\ src \in TypedIn
  /\ order \in (IF src.carrier = "Value" THEN KeyOrders ELSE {AnOrder})
  /\ target = (IF src.carrier = "Value" THEN "none" ELSE src.carrier)
  /\ value = None /\ text = None /\ form = "none" /\ pieces = <<>>
  /\ decl = None /\ layout = "none"

\* the caller holds a Value to decode
InitDecode ==
  /\ src = None /\ order = AnOrder
  /\ value \in {Ok(v) : v \in DecodeValuesIn}
  /\ target \in IntCarriers
  /\ text = None /\ form = "none" /\ pieces = <<>>
  /\ decl = None /\ layout = "none"

\* the caller holds a text to parse
InitText ==
  /\ src = None /\ order = AnOrder /\ value = None
  /\ pieces \in PieceSeqs
  /\ text = Ok(Concat(pieces))
  /\ form = "given" /\ target = "none"
  /\ decl = None /\ layout = "none"

\* the caller holds a text to decode with from_str
InitFromStr ==
  /\ src = None /\ order = AnOrder /\ value = None
  /\ text \in {Ok(t) : t \in FromStrTexts}
  /\ pieces = <<text.v>>
  /\ form = "given" /\ target \in IntCarriers
  /\ decl = None /\ layout = "none"

\* the caller holds a value of a type with derived impls
InitDerive ==
  /\ decl \in Decls /\ layout \in Layouts
  /\ src \in {[carrier |-> "derive", x |-> x] : x \in InstancesOf(decl)}
  /\ order \in DeriveOrders
  /\ target = "derive"
  /\ value = None /\ text = None /\ form = "none" /\ pieces = <<>>

\* the caller holds a Value to decode into a type with derived impls
InitDeriveDecode ==
  /\ decl \in Decls /\ layout \in Layouts
  /\ src = None /\ order = KeyListing
  /\ value \in {Ok(v) : v \in DeriveValuesIn(decl)}
  /\ target = "derive"
  /\ text = None /\ form = "none" /\ pieces = <<>>

\* a declaration that is only built
InitBuild ==
  /\ decl \in BuildDecls /\ layout \in Layouts
  /\ src = None /\ order = KeyListing /\ value = None
  /\ target = "derive"
  /\ text = None /\ form = "none" /\ pieces = <<>>

\* the caller holds an object literal to parse
InitObjectText ==
  /\ src = None /\ order = AnOrder /\ value = None
  /\ pieces \in {ObjectTokens(ps) : ps \in PairSeqs}
  /\ text = Ok(Concat(pieces))
  /\ form = "given" /\ target = "none"
  /\ decl = None /\ layout = "none"

\* the caller holds a text that stops short
InitOpenText ==
  /\ src = None /\ order = AnOrder /\ value = None
  /\ pieces \in OpenPieceSeqs
  /\ text = Ok(Concat(pieces))
  /\ form = "given" /\ target = "none"
  /\ decl = None /\ layout = "none"
\* the caller holds a string literal written with escapes
InitEscapeText ==
  /\ src = None /\ order = AnOrder /\ value = None
  /\ pieces \in EscapeTokens
  /\ text = Ok(Concat(pieces))
  /\ form = "given" /\ target = "none"
  /\ decl = None /\ layout = "none"
\* the caller holds a text written with the characters of numbers
InitNumberText ==
  /\ src = None /\ order = AnOrder /\ value = None
  /\ pieces \in NumberTexts
  /\ text = Ok(Concat(pieces))
  /\ form = "given" /\ target = "none"
  /\ decl = None /\ layout = "none"
\* no parse is followed step by step
NoParser == parser = None /\ frames = <<>> /\ ret = "none"

Init ==
  /\ parsed = None /\ decoded = None /\ spec = None /\ NoParser
  /\ (InitTyped \/ InitDecode \/ InitText \/ InitObjectText \/ InitOpenText \/ InitEscapeText
      \/ InitNumberText \/ InitFromStr \/ InitDerive \/ InitDeriveDecode \/ InitBuild)

\* the impls a run uses exist: built in, or derived and accepted by the compiler
HasSerialize == IF decl = None THEN TRUE ELSE IF spec = None THEN FALSE ELSE spec.ser
HasDeserialize == IF decl = None THEN TRUE ELSE IF spec = None THEN FALSE ELSE spec.de

\* the build: the derive macros expand on the declaration
Derive ==
  /\ decl # None /\ spec = None
  /\ spec' = Expansion(decl, layout)
  /\ UNCHANGED <<src, value, order, text, form, pieces, parsed, target, decoded, decl, layout, parser, frames, ret>>

\* value = src.serialize()
Serialize ==
  /\ src # None /\ value = None /\ HasSerialize
  /\ value' = serialize_src(src, decl, spec, layout)
  /\ UNCHANGED <<src, order, text, form, pieces, parsed, target, decoded, decl, layout, spec, parser, frames, ret>>

\* text = to_string(&src)
EmitCompact ==
  /\ value # None /\ src # None /\ text = None /\ decoded = None
  /\ text' = to_string(value, order)
  /\ form' = "compact"
  /\ UNCHANGED <<src, value, order, pieces, parsed, target, decoded, decl, layout, spec, parser, frames, ret>>

\* text = to_string_pretty(&src)
EmitPretty ==
  /\ value # None /\ src # None /\ text = None /\ decoded = None
  /\ text' = to_string_pretty(value, order)
  /\ form' = "pretty"
  /\ UNCHANGED <<src, value, order, pieces, parsed, target, decoded, decl, layout, spec, parser, frames, ret>>

\* parsed = parse(&text)
Parse ==
  /\ text.k = "ok" /\ parsed = None /\ target = "none"
  /\ parsed' = parse(text.v)
  /\ UNCHANGED <<src, value, order, text, form, pieces, target, decoded, decl, layout, spec, parser, frames, ret>>

\* decoded = T::deserialize(value)
Deserialize ==
  /\ value.k = "ok" /\ text = None /\ target # "none" /\ decoded = None /\ HasDeserialize
  /\ decoded' = deserialize_target(target, decl, spec, layout, value.v)
  /\ UNCHANGED <<src, value, order, text, form, pieces, parsed, target, decl, layout, spec, parser, frames, ret>>

\* decoded = from_str::<T>(&text)
FromStr ==
  /\ text.k = "ok" /\ target # "none" /\ decoded = None /\ HasDeserialize
  /\ parsed' = parse(text.v)
  /\ decoded' = DeserializeParsed(target, decl, spec, layout, parse(text.v))
  /\ UNCHANGED <<src, value, order, text, form, pieces, target, decl, layout, spec, parser, frames, ret>>

Next ==
  Derive \/ Serialize \/ EmitCompact \/ EmitPretty \/ Parse \/ Deserialize \/ FromStr

Spec == Init /\ [][Next]_vars

(***************************************************************************)
(* Notions the properties are stated with.                                 *)
(***************************************************************************)
\* the whitespace class of the JSON grammar: space, tab, line feed, carriage return
IsJsonWs(c) == c \in {Chr[" "], Chr["TAB"], Chr["LF"], Chr["CR"]}

RECURSIVE StripWsOutsideStrings(_, _, _, _)
\* the text from index i on without the whitespace that lies outside string literals
StripWsOutsideStrings(t, i, inStr, esc) ==
  IF i > Len(t) THEN <<>>
  ELSE IF inStr
       THEN <<t[i]>> \o StripWsOutsideStrings(t, i + 1, esc \/ t[i] # Chr["\""],
                                              ~esc /\ t[i] = Chr["\\"])
  ELSE IF IsJsonWs(t[i]) THEN StripWsOutsideStrings(t, i + 1, FALSE, FALSE)
  ELSE <<t[i]>> \o StripWsOutsideStrings(t, i + 1, t[i] = Chr["\""], FALSE)

\* the source is a Value all of whose Numbers are finite
FiniteValueSource == src # None /\ src.carrier = "Value" /\ AllFinite(src.x)

\* the Value a keyword piece stands for
KeywordValue(p) ==
  IF p = Str(<<"n", "u", "l", "l">>) THEN Null
  ELSE IF p = Str(<<"t", "r", "u", "e">>) THEN Bool(TRUE)
  ELSE Bool(FALSE)

RECURSIVE OnlyKeywords(_)
\* every leaf of the value is Null or a Bool, and there is at least a container or a keyword
OnlyKeywords(v) ==
  IF v.t \in {"Null", "Bool"} THEN TRUE
  ELSE IF v.t = "Array" THEN \A i \in 1..Len(v.a) : OnlyKeywords(v.a[i])
  ELSE IF v.t = "Object" THEN \A k \in DOMAIN v.o : OnlyKeywords(v.o[k])
  ELSE FALSE

NonWs(ps) == SelectSeq(ps, LAMBDA p : p \notin JsonWsPieces)

\* pieces that could run together into one token when nothing separates them
WordPieces == KeywordPieces \cup NumberPieces \cup JunkPieces

\* no whitespace piece stands where removing it would join two word pieces
WsOnlyBetweenTokens(ps) ==
  \A i, j \in DOMAIN ps :
    (i + 1 < j /\ ps[i] \in WordPieces /\ ps[j] \in WordPieces)
      => \E m \in (i + 1)..(j - 1) : ps[m] \notin JsonWsPieces

\* the Value decoded by Deserialize or FromStr, as a Result
DecodeInput == IF text # None THEN parsed ELSE value

\* a complete outer value at the head of the non-whitespace pieces: its length in pieces
CompletePrefix(ps) ==
  IF Len(ps) >= 1 /\ ps[1] \in KeywordPieces \cup StringPieces \cup {Str(<<"4", "2">>)} THEN 1
  ELSE IF Len(ps) >= 2 /\ ps[1] = Str(<<"[">>) /\ ps[2] = Str(<<"]">>) THEN 2
  ELSE IF Len(ps) >= 2 /\ ps[1] = Str(<<"{">>) /\ ps[2] = Str(<<"}">>) THEN 2
  ELSE 0

\* index in ps of the k-th piece that is not JSON whitespace
RECURSIVE NthNonWs(_, _, _)
NthNonWs(ps, k, i) ==
  IF ps[i] \notin JsonWsPieces
  THEN (IF k = 1 THEN i ELSE NthNonWs(ps, k - 1, i + 1))
  ELSE NthNonWs(ps, k, i + 1)

\* the text is a complete outer value followed by a character that is no
\* whitespace and does not continue the value's last token
HasTrailing(ps) ==
  LET nw == NonWs(ps)
      n == CompletePrefix(nw)
  IN /\ n > 0 /\ Len(nw) > n
     /\ ~(nw[n] \in NumberPieces /\ nw[n + 1] \in NumberPieces)

\* byte offset of the first trailing character
TrailingOffset(ps) ==
  LET j == NthNonWs(ps, CompletePrefix(NonWs(ps)) + 1, 1)
  IN ByteSize(Concat(SubSeq(ps, 1, j - 1)))

(***************************************************************************)
(* Properties.                                                             *)
(***************************************************************************)
\* C1: compact round trip. For every Value v with only finite Numbers,
\* parse(to_string(v)) returns Ok(v), Object equality being order-independent.
C1_CompactRoundTrip ==
  (FiniteValueSource /\ form = "compact" /\ text.k = "ok" /\ parsed # None)
    => (parsed.k = "ok" /\ ValueEq(parsed.v, src.x))

\* C2: pretty round trip. For every Value v with only finite Numbers,
\* parse(to_string_pretty(v)) returns Ok(v), and the pretty text equals the
\* compact text once the whitespace outside strings is removed.
C2_PrettyRoundTrip ==
  (FiniteValueSource /\ form = "pretty" /\ text.k = "ok" /\ parsed # None)
    => /\ parsed.k = "ok" /\ ValueEq(parsed.v, src.x)
       /\ StripWsOutsideStrings(text.v, 1, FALSE, FALSE)
            = StripWsOutsideStrings(Display(src.x, order), 1, FALSE, FALSE)

\* C3: the keywords null, true and false are recognized wherever a value may
\* start: at the top level with or without surrounding whitespace, as an array
\* element and as an object member value.
C3_KeywordsEverywhere ==
  /\ (form = "given" /\ parsed # None /\ Len(NonWs(pieces)) = 1
      /\ NonWs(pieces)[1] \in KeywordPieces)
       => parsed = Ok(KeywordValue(NonWs(pieces)[1]))
  /\ (src # None /\ src.carrier = "Value" /\ OnlyKeywords(src.x)
      /\ text.k = "ok" /\ parsed # None)
       => (parsed.k = "ok" /\ ValueEq(parsed.v, src.x))

\* C4: whitespace insensitivity. If the text without its whitespace pieces is
\* accepted with value v, the text with whitespace before the value, after it
\* or between two tokens is accepted with the same value v.
C4_WhitespaceInsensitive ==
  (form = "given" /\ parsed # None /\ WsOnlyBetweenTokens(pieces)
   /\ parse(Concat(NonWs(pieces))).k = "ok")
    => (parsed.k = "ok" /\ ValueEq(parsed.v, parse(Concat(NonWs(pieces))).v))

\* C5: parse returns Ok or Err on every input text; no parser step panics.
C5_ParseNeverPanics ==
  parsed # None => parsed.k \in {"ok", "err"}

\* C6: an input in which a non-whitespace character follows the complete outer
\* value is rejected with a Syntax diagnostic whose position is the byte offset
\* of the first such character.
C6_TrailingRejected ==
  (form = "given" /\ parsed # None /\ HasTrailing(pieces))
    => /\ parsed.k = "err" /\ parsed.e.kind = "Syntax"
       /\ parsed.e.position = TrailingOffset(pieces)

\* C7: a number literal that overflows the double-precision range is rejected;
\* parse never returns a Value that contains a non-finite Number.
C7_OverflowRejected ==
  (parsed # None /\ parsed.k = "ok") => AllFinite(parsed.v)

\* C8: for i64 and u64, serialize rejects every value whose magnitude exceeds
\* 2^53 - 1 and deserialize rejects every Number whose magnitude exceeds 2^53 - 1.
C8_SafeIntegerRange ==
  /\ (src # None /\ src.carrier \in {"i64", "u64"} /\ value # None
      /\ MagLess(MaxSafe, src.x))
       => value.k = "err"
  /\ (target \in {"i64", "u64"} /\ decoded # None /\ DecodeInput.k = "ok"
      /\ DecodeInput.v.t = "Number" /\ is_finite(DecodeInput.v.n)
      /\ MagLess(MaxSafe, DecodeInput.v.n))
       => decoded.k = "err"

\* n lies in [T::MIN, T::MAX]
InCarrierRange(T, n) == is_finite(n) /\ ~F64Lt(n, MinOf(T)) /\ ~F64Lt(MaxOf(T), n)

\* the decoder returned the integer exactly equal to n
DecodedExactly(n) == decoded.k = "ok" /\ decoded.v.k = "fin" /\ decoded.v.x >= 0 /\ F64Eq(decoded.v, n)

DecodedTypeError == decoded.k = "err" /\ decoded.e.kind = "TypeError"

IntegerDecodeDone ==
  target \in IntCarriers /\ decoded # None /\ DecodeInput.k = "ok"

\* C9 as stated: a Number with a nonzero fractional part or outside
\* [T::MIN, T::MAX] gives TypeError, every other Number decodes to the integer
\* equal to it, and a non-Number gives TypeError.
C9_Original ==
  IntegerDecodeDone =>
    LET v == DecodeInput.v
    IN IF v.t # "Number" THEN DecodedTypeError
       ELSE IF fract_nonzero(v.n) \/ ~InCarrierRange(target, v.n) THEN DecodedTypeError
       ELSE DecodedExactly(v.n)

\* C9 (amended): a Number with a nonzero fractional part, or outside
\* [T::MIN, T::MAX], or, for i64 and u64, of magnitude above 2^53 - 1, gives
\* TypeError; every other Number decodes to the integer exactly equal to it
\* (no rounding, no wrap-around); a non-Number Value gives TypeError.
C9_IntegerDecode ==
  IntegerDecodeDone =>
    LET v == DecodeInput.v
    IN IF v.t # "Number" THEN DecodedTypeError
       ELSE IF \/ fract_nonzero(v.n)
               \/ ~InCarrierRange(target, v.n)
               \/ (target \in {"i64", "u64"} /\ MagLess(MaxSafe, v.n))
            THEN DecodedTypeError
       ELSE DecodedExactly(v.n)

\* C9 witness: i64 was handed 2^53 and refused it, a case the range
\* [i64::MIN, i64::MAX] alone would accept
C9_Witness ==
  /\ target = "i64" /\ value = Ok(Number(Two53))
  /\ decoded # None /\ DecodedTypeError

\* C10: non-finite numbers never reach the output. Serializing a non-finite
\* f32 or f64 returns a diagnostic; to_string and to_string_pretty of a Value
\* that contains a non-finite Number return a diagnostic; every other Value
\* is emitted.
C10_NonFiniteRejected ==
  /\ (src # None /\ src.carrier \in FloatCarriers /\ ~is_finite(src.x) /\ value # None)
       => value.k = "err"
  /\ (src # None /\ src.carrier = "Value" /\ text # None)
       => (text.k = "ok" <=> AllFinite(src.x))

(***************************************************************************)
(* Derived impls.                                                          *)
(***************************************************************************)
\* the run is over a value of a type with derived impls
IsDerived == IF src = None THEN FALSE ELSE src.carrier = "derive"

\* the run decodes a Value the caller holds into a type with derived impls
IsDerivedDecode == src = None /\ decl # None /\ value # None

\* C11: every instance x of a derived record or tagged union serializes to
\* a Value w, and deserialize(w) returns Ok(x)
C11_TypedRoundTrip ==
  (IsDerived /\ value # None) =>
    /\ value.k = "ok"
    /\ (text = None /\ decoded # None) => decoded = Ok(src.x)

\* C12: for every instance x of a derived record or tagged union,
\* from_str(to_string(x)) returns Ok(x)
C12_TextRoundTrip ==
  (IsDerived /\ text # None) =>
    /\ text.k = "ok"
    /\ decoded # None => decoded = Ok(src.x)

\* what a declaration says of a field: its directives and its wire name
HasDirective(f, d) ==
  \E a \in 1..Len(f.attrs) : \E j \in 1..Len(f.attrs[a]) : f.attrs[a][j].d = d
DeclSkip(f) == HasDirective(f, "skip")
DeclSkipIfNone(f) == HasDirective(f, "skip_if_none")
DeclOptional(f) == f.ty.k = "Option"
DeclWire(f) ==
  IF HasDirective(f, "rename")
  THEN LET a == CHOOSE a \in 1..Len(f.attrs) :
                  \E j \in 1..Len(f.attrs[a]) : f.attrs[a][j].d = "rename"
           j == CHOOSE j \in 1..Len(f.attrs[a]) : f.attrs[a][j].d = "rename"
       IN f.attrs[a][j].w
  ELSE f.name

\* the declared fields the encoder writes for the instance x
Written(dfields, x) ==
  {i \in 1..Len(dfields) :
     /\ ~DeclSkip(dfields[i])
     /\ ~(DeclSkipIfNone(dfields[i]) /\ DeclOptional(dfields[i]) /\ ~x[dfields[i].name].some)}

\* the map holds exactly the wire names of the written fields, each mapped
\* to the encode of the field's value
HoldsWritten(map, dfields, x) ==
  /\ DOMAIN map = {DeclWire(dfields[i]) : i \in Written(dfields, x)}
  /\ \A i \in Written(dfields, x) :
       Ok(map[DeclWire(dfields[i])]) = serialize_ty(dfields[i].ty, x[dfields[i].name], layout)

\* a derived record was encoded
RecordEncoded == IsDerived /\ decl.k = "struct" /\ value # None /\ value.k = "ok"

\* C13: the record encoder returns an Object whose keys are exactly the wire
\* names of the fields not marked skip, less the optional skip_if_none fields
\* whose value is absent; each key maps to the encode of its field's value
C13_RecordEncoderKeys ==
  RecordEncoded => /\ value.v.t = "Object"
                   /\ HoldsWritten(value.v.o, decl.fields, src.x)

\* C13 witness: a record with a renamed field, a skip field holding a value
\* and an absent optional field was encoded
C13_Witness ==
  /\ RecordEncoded /\ decl = PersonDecl
  /\ src.x[Str(<<"i">>)].some /\ ~src.x[Str(<<"e">>)].some
  /\ DOMAIN value.v.o = {Str(<<"n">>), Str(<<"g">>), Str(<<"b">>), Str(<<"w">>)}

\* the declared field i of a record is optional and written by the encoder
\* as C14 says: no key when absent under skip_if_none, Null when absent
\* otherwise, the encode of the inner value when present
OptionalWritten(map, f, v) ==
  IF ~v.some
  THEN IF DeclSkipIfNone(f) THEN DeclWire(f) \notin DOMAIN map
       ELSE DeclWire(f) \in DOMAIN map /\ map[DeclWire(f)] = Null
  ELSE /\ DeclWire(f) \in DOMAIN map
       /\ Ok(map[DeclWire(f)]) = serialize_ty(f.ty.of, v.v, layout)

\* C14: an absent optional field gives no key under skip_if_none and the key
\* mapped to Null without it; a present one gives the key mapped to the
\* encode of the inner value, with or without skip_if_none
C14_OptionalFieldEncoding ==
  RecordEncoded =>
    /\ value.v.t = "Object"
    /\ \A i \in 1..Len(decl.fields) :
         (DeclOptional(decl.fields[i]) /\ ~DeclSkip(decl.fields[i]))
         => OptionalWritten(value.v.o, decl.fields[i], src.x[decl.fields[i].name])

\* C14 witness: a record was encoded with its skip_if_none field present
\* and its plain optional field absent
C14_Witness ==
  /\ RecordEncoded /\ decl = OptionalsDecl
  /\ src.x[Str(<<"c">>)].some /\ ~src.x[Str(<<"o">>)].some
  /\ value.v.o[Str(<<"c">>)] = Number(Forty2) /\ value.v.o[Str(<<"o">>)] = Null

\* C14 witness of the other half: the skip_if_none field was absent and left out
C14_WitnessAbsent ==
  /\ RecordEncoded /\ decl = OptionalsDecl
  /\ ~src.x[Str(<<"c">>)].some /\ Str(<<"c">>) \notin DOMAIN value.v.o

(***************************************************************************)
(* The generators on the FieldSpec and VariantSpec lists of a declaration. *)
(***************************************************************************)
\* the Field a generator is handed for a declared field
FieldSpecOf(f) ==
  Field(f.name, IF HasDirective(f, "rename") THEN OptSome(DeclWire(f)) ELSE OptNone,
        DeclSkip(f), DeclSkipIfNone(f), DeclOptional(f))
FieldSpecsOf(dfields) == [i \in 1..Len(dfields) |-> FieldSpecOf(dfields[i])]

\* the Variant a generator is handed for a declared variant
VariantSpecOf(v) ==
  Variant(v.name, IF HasDirective(v, "rename") THEN OptSome(DeclWire(v)) ELSE OptNone,
          v.kind, [i \in 1..Len(v.types) |-> TypeText(v.types[i])], FieldSpecsOf(v.fields))

\* generate_*(name, fields) / generate_*(name, variants) on the lists of a declaration
Given(T) ==
  [k |-> "expanded",
   items |-> IF T.k = "struct" THEN FieldSpecsOf(T.fields)
             ELSE [i \in 1..Len(T.variants) |-> VariantSpecOf(T.variants[i])],
   ser |-> TRUE, de |-> TRUE]

\* the generated impls of a declaration are in place
GenInit ==
  /\ parsed = None /\ decoded = None /\ NoParser
  /\ (InitDerive \/ InitDeriveDecode)
  /\ spec = Given(decl)

GenNext == Serialize \/ Deserialize

GenSpec == GenInit /\ [][GenNext]_vars

\* a derived decoder was handed a Value and has answered
DerivedDecoded == decl # None /\ text = None /\ decoded # None

\* the Value handed to the decoder of a tagged union is an Object whose
\* "type" is the wire name of the Named variant i
TagsNamed(i) ==
  /\ decl.k = "enum" /\ value.v.t = "Object"
  /\ TypeKey \in DOMAIN value.v.o /\ value.v.o[TypeKey].t = "String"
  /\ decl.variants[i].kind = "Struct"
  /\ DeclWire(decl.variants[i]) = value.v.o[TypeKey].s

\* the declared fields the decoder resolves from the Object in hand: those of
\* the record, or those of the Named variant the Object is tagged with
FieldsDecoded ==
  IF decl.k = "struct" THEN (IF value.v.t = "Object" THEN decl.fields ELSE <<>>)
  ELSE IF \E i \in 1..Len(decl.variants) : TagsNamed(i)
  THEN decl.variants[CHOOSE i \in 1..Len(decl.variants) : TagsNamed(i)].fields
  ELSE <<>>

\* a field the input must hold: not skip, not optional, not skip_if_none
Required(f) == ~DeclSkip(f) /\ ~DeclOptional(f) /\ ~DeclSkipIfNone(f)

\* the required fields whose key the Object lacks
Missing(dfields, map) ==
  {i \in 1..Len(dfields) : Required(dfields[i]) /\ DeclWire(dfields[i]) \notin DOMAIN map}

\* what the decode of the Value under the key of field f answers, when the
\* decoder reads it
FieldDecode(f, map) ==
  IF DeclOptional(f) THEN deserialize_ty(f.ty.of, map[DeclWire(f)], layout)
  ELSE deserialize_ty(f.ty, map[DeclWire(f)], layout)

\* the decoder reads the key of field f and its decode fails
FieldFails(f, map) ==
  /\ ~DeclSkip(f) /\ DeclWire(f) \in DOMAIN map
  /\ ~(DeclOptional(f) /\ map[DeclWire(f)].t = "Null")
  /\ FieldDecode(f, map).k # "ok"

\* the fields before field m whose decode fails
FailsBefore(dfields, map, m) == {j \in 1..(m - 1) : FieldFails(dfields[j], map)}

Least(S) == CHOOSE i \in S : \A j \in S : i <= j

C15_WitnessEarlier ==
  /\ DerivedDecoded /\ decl = PersonDecl /\ value.v.t = "Object"
  /\ Missing(FieldsDecoded, value.v.o) # {}
  /\ FailsBefore(FieldsDecoded, value.v.o, Least(Missing(FieldsDecoded, value.v.o))) # {}
  /\ decoded.k = "err" /\ decoded.e.kind = "TypeError"

\* the fields of the decoded record, or of the decoded Named variant
DecodedFields == IF decl.k = "struct" THEN decoded.v ELSE decoded.v.fields

\* the key of field f holds something the decoder takes for a value
Holds(f, map) ==
  DeclWire(f) \in DOMAIN map /\ ~(DeclOptional(f) /\ map[DeclWire(f)].t = "Null")

\* what C16 says field f resolves to, given the Object
Resolved(f, map) ==
  IF DeclSkip(f) THEN DefaultOf(f.ty)
  ELSE IF DeclOptional(f)
  THEN (IF Holds(f, map) THEN OptSome(FieldDecode(f, map).v) ELSE OptNone)
  ELSE IF DeclWire(f) \in DOMAIN map THEN FieldDecode(f, map).v
  ELSE DefaultOf(f.ty)

C16_WitnessSkip ==
  /\ DerivedDecoded /\ decl = SwitchDecl /\ value.v.t = "Object"
  /\ Str(<<"s">>) \in DOMAIN value.v.o /\ value.v.o[Str(<<"s">>)] = Number(Forty2)
  /\ decoded.k = "ok" /\ decoded.v.fields[Str(<<"s">>)] = Zero
  /\ decoded.v.fields[Str(<<"m">>)] = OptSome(Str(<<"a">>))

\* a value of a derived tagged union was encoded
EnumEncoded == IsDerived /\ decl.k = "enum" /\ value # None

\* the declared variant the encoded value is of
VariantEncoded == Declared(decl.variants, src.x.variant)

\* the Array holds the encodes of the elements, in declared order
HoldsElements(arr, types, xs) ==
  /\ Len(arr) = Len(types)
  /\ \A i \in 1..Len(types) : Ok(arr[i]) = serialize_ty(types[i], xs[i], layout)

C17_WitnessNamed ==
  /\ EnumEncoded /\ decl = SwitchDecl /\ src.x.variant = Str(<<"O", "n">>)
  /\ ~src.x.fields[Str(<<"m">>)].some /\ value.k = "ok"
  /\ DOMAIN value.v.o = {TypeKey, Str(<<"c">>), Str(<<"w">>)}

\* C17 witness for arity 2
C17_WitnessPair ==
  /\ EnumEncoded /\ decl = StatusDecl /\ src.x.variant = Str(<<"P", "a", "i", "r">>)
  /\ value = Ok(Object(Tagged(Str(<<"P", "a", "i", "r">>),
                              Array(<<Number(Forty2), String(Str(<<"a">>))>>))))

\* the answer is a TypeError diagnostic
IsTypeError(r) == r.k = "err" /\ r.e.kind = "TypeError"

\* a decoder of a derived tagged union was handed a Value and has answered
EnumDecoded == DerivedDecoded /\ decl.k = "enum"

\* the declared variants of a kind with the wire name w
Named(kinds, w) ==
  {i \in 1..Len(decl.variants) :
     decl.variants[i].kind \in kinds /\ DeclWire(decl.variants[i]) = w}

\* the Object holds a String under "type"
HasTag(map) == TypeKey \in DOMAIN map /\ map[TypeKey].t = "String"

\* the Object holds under "data" an Array of the arity of the variant i
HasData(map, i) ==
  /\ DataKey \in DOMAIN map /\ map[DataKey].t = "Array"
  /\ Len(map[DataKey].a) = Len(decl.variants[i].types)

C18_WitnessNoTag ==
  /\ EnumDecoded /\ decl = StatusDecl /\ value.v.t = "Object"
  /\ TypeKey \in DOMAIN value.v.o /\ value.v.o[TypeKey].t = "Number"
  /\ decoded = Err(MissingField(TypeKey))

\* C18 witness: the "type" of the Object is the wire name of a Unit variant
C18_WitnessUnitTag ==
  /\ EnumDecoded /\ decl = StatusDecl /\ value.v.t = "Object" /\ HasTag(value.v.o)
  /\ value.v.o[TypeKey].s = Str(<<"A", "c", "t", "i", "v", "e">>)
  /\ IsTypeError(decoded)

\* the generator holds the declared item (a field or a variant) under its
\* host name, with the wire name of the declaration
Kept(items, d) ==
  \E i \in 1..Len(items) : items[i].name = d.name /\ ser_name(items[i]) = DeclWire(d)

\* the generator holds the fields of the Named variant d with their wire names
KeptFields(items, d) ==
  \A i \in 1..Len(items) :
    items[i].name = d.name => \A j \in 1..Len(d.fields) : Kept(items[i].fields, d.fields[j])

\* the String, or the "type" of the Object, a variant was encoded to
TagOf(v) == IF v.t = "String" THEN v.s ELSE v.o[TypeKey].s

\* C19: rename is honored on both paths. A variant declared with a rename
\* is kept by the generator with that wire name, encodes with it and is
\* decoded from it, not from its host name; a field declared with a rename
\* is held, written and read under that wire name.
C19_RenameHonored ==
  /\ (spec # None /\ decl.k = "struct") =>
       \A j \in 1..Len(decl.fields) : Kept(spec.items, decl.fields[j])
  /\ (spec # None /\ decl.k = "enum") =>
       \A j \in 1..Len(decl.variants) :
         /\ Kept(spec.items, decl.variants[j])
         /\ KeptFields(spec.items, decl.variants[j])
  /\ (EnumEncoded /\ value.k = "ok") => TagOf(value.v) = DeclWire(VariantEncoded)
  /\ (EnumDecoded /\ src = None /\ value.v.t = "String") =>
       IF Named({"Unit"}, value.v.s) # {}
       THEN decoded = Ok(UnitOf(decl.variants[Least(Named({"Unit"}, value.v.s))].name))
       ELSE decoded.k = "err"

(***************************************************************************)
(* Object literals.                                                        *)
(***************************************************************************)
\* the text in hand is an object literal of n pairs, written by the caller
LiteralPairs == (Len(pieces) - 1) \div 4
IsObjectLiteral ==
  /\ form = "given" /\ Len(pieces) >= 5 /\ Len(pieces) % 4 = 1
  /\ pieces[1] = Str(<<"{">>) /\ pieces[Len(pieces)] = Str(<<"}">>)
  /\ \A j \in 1..LiteralPairs : pieces[4 * j - 1] = Str(<<":">>)

\* the key and the value text of pair j of the literal
KeyOfPair(j) == SubSeq(pieces[4 * j - 2], 2, Len(pieces[4 * j - 2]) - 1)
ValueOfPair(j) == pieces[4 * j]

\* the last pair of the literal with the key of pair j
LastWith(j) ==
  CHOOSE l \in j..LiteralPairs :
    /\ KeyOfPair(l) = KeyOfPair(j)
    /\ \A m \in (l + 1)..LiteralPairs : KeyOfPair(m) # KeyOfPair(j)

\* the literal repeats a key
RepeatsKey == \E j, l \in 1..LiteralPairs : j # l /\ KeyOfPair(j) = KeyOfPair(l)

\* C20: parse accepts an object literal that repeats a key, and the Object
\* maps each key, once, to the value of its last occurrence in the text
C20_LastKeyWins ==
  (IsObjectLiteral /\ RepeatsKey /\ parsed # None) =>
    /\ parsed.k = "ok" /\ parsed.v.t = "Object"
    /\ DOMAIN parsed.v.o = {KeyOfPair(j) : j \in 1..LiteralPairs}
    /\ \A j \in 1..LiteralPairs : Ok(parsed.v.o[KeyOfPair(j)]) = parse(ValueOfPair(LastWith(j)))

(***************************************************************************)
(* Diagnostics of the parser.                                              *)
(***************************************************************************)
\* pieces that are one complete scalar token
ScalarPieces == KeywordPieces \cup NumberPieces \cup StringPieces

\* what may follow once a value is complete inside the containers of stack
AfterScalar(stack) == IF stack = <<>> THEN "done" ELSE "commaOrClose"

Verdict(v, at) == [v |-> v, at |-> at]

RECURSIVE Prefix(_, _, _, _)
\* Reads the pieces ps from index i on as tokens of the JSON grammar, stack
\* being the containers that are open ("A" array, "O" object) and expect what
\* the grammar allows next. The answer is "complete" when the outer value is
\* complete at the end of the pieces, "open" when the pieces end before it
\* is, and "invalid" when piece number at is no token the grammar allows there.
Prefix(ps, i, stack, expect) ==
  IF i > Len(ps) THEN Verdict(IF expect = "done" THEN "complete" ELSE "open", i)
  ELSE IF ps[i] \in JsonWsPieces THEN Prefix(ps, i + 1, stack, expect)
  ELSE IF expect \in {"value", "valueOrClose"}
       THEN IF ps[i] \in ScalarPieces THEN Prefix(ps, i + 1, stack, AfterScalar(stack))
            ELSE IF ps[i] = Str(<<"[">>) THEN Prefix(ps, i + 1, <<"A">> \o stack, "valueOrClose")
            ELSE IF ps[i] = Str(<<"{">>) THEN Prefix(ps, i + 1, <<"O">> \o stack, "keyOrClose")
            ELSE IF ps[i] = Str(<<"]">>) /\ expect = "valueOrClose"
                 THEN Prefix(ps, i + 1, Tail(stack), AfterScalar(Tail(stack)))
            ELSE IF ps[i] \in OpenStringPieces /\ i = Len(ps) THEN Verdict("open", i)
            ELSE Verdict("invalid", i)
  ELSE IF expect \in {"key", "keyOrClose"}
       THEN IF ps[i] \in StringPieces THEN Prefix(ps, i + 1, stack, "colon")
            ELSE IF ps[i] = Str(<<"}">>) /\ expect = "keyOrClose"
                 THEN Prefix(ps, i + 1, Tail(stack), AfterScalar(Tail(stack)))
            ELSE IF ps[i] \in OpenStringPieces /\ i = Len(ps) THEN Verdict("open", i)
            ELSE Verdict("invalid", i)
  ELSE IF expect = "colon"
       THEN IF ps[i] = Str(<<":">>) THEN Prefix(ps, i + 1, stack, "value") ELSE Verdict("invalid", i)
  ELSE IF expect = "commaOrClose"
       THEN IF ps[i] = Str(<<",">>)
            THEN Prefix(ps, i + 1, stack, IF Head(stack) = "A" THEN "value" ELSE "key")
            ELSE IF (ps[i] = Str(<<"]">>) /\ Head(stack) = "A") \/ (ps[i] = Str(<<"}">>) /\ Head(stack) = "O")
                 THEN Prefix(ps, i + 1, Tail(stack), AfterScalar(Tail(stack)))
            ELSE Verdict("invalid", i)
  ELSE Verdict("invalid", i)

\* the input is exhausted before the outer value is complete
Exhausted(ps) == Prefix(ps, 1, <<>>, "value").v = "open"

\* C21: whenever the input is exhausted before the outer value is complete
\* (empty or whitespace-only input, unterminated string or \u escape, array
\* or object left open at any depth), parse returns Error::Eof.
C21_EofOnExhaustion ==
  (form = "given" /\ target = "none" /\ parsed # None /\ Exhausted(pieces)) => parsed = Err(Eof)

\* every piece stands for itself: no two pieces run together into one word,
\* and there is no character of another whitespace class
Tokenised(ps) ==
  /\ \A i \in 1..Len(ps) : ps[i] \in Pieces \ OtherWsPieces
  /\ \A i \in 1..(Len(ps) - 1) : ~(ps[i] \in WordPieces /\ ps[i + 1] \in WordPieces)

\* the text is rejected by the grammar at one of its pieces
Rejected(ps) == Tokenised(ps) /\ Prefix(ps, 1, <<>>, "value").v = "invalid"

\* byte offset of the first character of the piece the grammar rejects
OffendingOffset(ps) ==
  ByteSize(Concat(SubSeq(ps, 1, Prefix(ps, 1, <<>>, "value").at - 1)))

\* C22: a Syntax or ExpectedFound diagnostic returned by parse carries the
\* byte offset of the character at which the error was detected (for a
\* partial keyword, of its first character), also inside nested arrays, and
\* from_str returns the diagnostic of parse unchanged.
C22_DiagnosticPositions ==
  /\ (form = "given" /\ parsed # None /\ Rejected(pieces) /\ parsed.k = "err"
      /\ parsed.e.kind \in {"Syntax", "ExpectedFound"})
       => parsed.e.position = OffendingOffset(pieces)
  /\ (form = "given" /\ decoded # None /\ parsed.k = "err") => decoded = parsed

(***************************************************************************)
(* String literals.                                                        *)
(***************************************************************************)
\* the character a unit of a string literal stands for in the JSON grammar
UnitChar(u) ==
  IF u = Str(<<"\\", "\"">>) THEN Chr["\""]
  ELSE IF u = Str(<<"\\", "\\">>) THEN Chr["\\"]
  ELSE IF u = Str(<<"\\", "/">>) THEN Chr["/"]
  ELSE IF u = Str(<<"\\", "n">>) THEN Chr["LF"]
  ELSE IF u = Str(<<"\\", "r">>) THEN Chr["CR"]
  ELSE IF u = Str(<<"\\", "t">>) THEN Chr["TAB"]
  ELSE IF u = Str(<<"\\", "b">>) THEN Chr["BS"]
  ELSE IF u = Str(<<"\\", "f">>) THEN Chr["FF"]
  ELSE IF u = Str(<<"\\", "u", "0", "0", "4", "1">>) THEN Chr["A"]
  ELSE IF u \in {Str(<<"\\", "u", "0", "0", "e", "9">>), Str(<<"\\", "u", "0", "0", "E", "9">>)} THEN Chr["EACUTE"]
  ELSE u[1]

\* the text in hand is a string literal written unit by unit
IsEscapeLiteral ==
  /\ form = "given" /\ Len(pieces) >= 3
  /\ pieces[1] = Quote /\ pieces[Len(pieces)] = Quote
  /\ \A i \in 2..(Len(pieces) - 1) : pieces[i] \in EscapeUnits

\* the units between the quotes
LiteralUnits == SubSeq(pieces, 2, Len(pieces) - 1)

\* C23: inside a string literal the parser accepts exactly the escapes
\* \" \\ \/ \n \r \t \b \f and \uXXXX (hex digits of either case) and decodes
\* each to its character; a backslash before any other character is rejected.
C23_EscapesDecoded ==
  (IsEscapeLiteral /\ parsed # None) =>
    IF \E i \in 1..Len(LiteralUnits) : LiteralUnits[i] \in OtherEscapes
    THEN parsed.k = "err"
    ELSE parsed = Ok(String([i \in 1..Len(LiteralUnits) |-> UnitChar(LiteralUnits[i])]))

(***************************************************************************)
(* String literals of the emitted text.                                    *)
(***************************************************************************)
RECURSIVE StringsOf(_, _)
RECURSIVE StringsOfItems(_, _, _)
RECURSIVE StringsOfPairs(_, _, _, _)
\* the Strings of a Value, keys included, in the order the emitters reach them
StringsOf(v, o) ==
  IF v.t = "String" THEN <<v.s>>
  ELSE IF v.t = "Array" THEN StringsOfItems(v.a, 1, o)
  ELSE IF v.t = "Object" THEN StringsOfPairs(v.o, IterKeys(v.o, o), 1, o)
  ELSE <<>>

StringsOfItems(a, i, o) ==
  IF i > Len(a) THEN <<>> ELSE StringsOf(a[i], o) \o StringsOfItems(a, i + 1, o)

StringsOfPairs(m, keys, i, o) ==
  IF i > Len(keys) THEN <<>>
  ELSE <<keys[i]>> \o StringsOf(m[keys[i]], o) \o StringsOfPairs(m, keys, i + 1, o)

\* a scan that met a raw control character, a backslash that starts no
\* escape, or the end of the text inside a literal
BadLiteral == <<<<0 - 1>>>>

\* reading of \uXXXX at t[i..i+3]
HexAt(t, i) ==
  to_digit16(t[i]) * 4096 + to_digit16(t[i + 1]) * 256 + to_digit16(t[i + 2]) * 16
  + to_digit16(t[i + 3])

RECURSIVE Literals(_, _, _, _, _)
\* The string literals of text t from index i on, each decoded by the escapes
\* of the JSON grammar: lits are the literals closed so far, cur the decoded
\* characters of the literal that is open when inStr holds.
Literals(t, i, inStr, cur, lits) ==
  IF i > Len(t) THEN (IF inStr THEN BadLiteral ELSE lits)
  ELSE IF ~inStr THEN Literals(t, i + 1, t[i] = Chr["\""], <<>>, lits)
  ELSE IF t[i] = Chr["\""] THEN Literals(t, i + 1, FALSE, <<>>, Append(lits, cur))
  ELSE IF t[i] \in 0..31 THEN BadLiteral
  ELSE IF t[i] # Chr["\\"] THEN Literals(t, i + 1, TRUE, Append(cur, t[i]), lits)
  ELSE IF i + 1 > Len(t) THEN BadLiteral
  ELSE IF t[i + 1] = Chr["/"] THEN Literals(t, i + 2, TRUE, Append(cur, Chr["/"]), lits)
  ELSE IF EscapeOf(t[i + 1]) # NoChar
       THEN Literals(t, i + 2, TRUE, Append(cur, EscapeOf(t[i + 1])), lits)
  ELSE IF /\ t[i + 1] = Chr["u"] /\ i + 5 <= Len(t)
          /\ \A j \in (i + 2)..(i + 5) : is_ascii_hexdigit(t[j])
       THEN Literals(t, i + 6, TRUE, Append(cur, HexAt(t, i + 2)), lits)
  ELSE BadLiteral

\* the text in hand was emitted from the Value in hand
Emitted == form \in {"compact", "pretty"} /\ text.k = "ok" /\ value.k = "ok"

\* C24: in the text of to_string and to_string_pretty no string literal,
\* value or key, holds a raw double quote, a raw backslash or a raw control
\* character U+0000..U+001F: the literals of the text are, in order and read
\* by their escapes, the Strings and keys of the Value.
C24_EmittedLiteralsEscaped ==
  Emitted => Literals(text.v, 1, FALSE, <<>>, <<>>) = StringsOf(value.v, order)

(***************************************************************************)
(* Whitespace.                                                             *)
(***************************************************************************)
\* the text holds, between its tokens or around them, a character that some
\* other notion of whitespace counts in and the JSON grammar does not
HasOtherWhitespace(ps) == \E i \in 1..Len(ps) : ps[i] \in OtherWsPieces

\* C25: the whitespace class of the parser is exactly space, tab, line feed
\* and carriage return: any other character between tokens or around the
\* outer value is not skipped, and parse returns a diagnostic.
C25_WhitespaceClass ==
  (form = "given" /\ target = "none" /\ parsed # None /\ HasOtherWhitespace(pieces))
    => parsed.k = "err"

(***************************************************************************)
(* Numbers.                                                                *)
(***************************************************************************)
\* the text in hand is written with the characters of numbers
IsNumberText == form = "given" /\ pieces \in NumberTexts

\* The number grammar, read from index i of t on; each step gives the index
\* behind the part it read, 0 when the part is not there as the grammar
\* wants it.
\* integer part: a single '0' or a digit run that does not start with '0'
IntPart(t, i) ==
  IF i > Len(t) \/ ~is_ascii_digit(t[i]) THEN 0
  ELSE IF t[i] = Chr["0"] THEN i + 1
  ELSE DigitsEnd(t, i)

\* optional fraction: '.' and at least one digit
FracPart(t, i) ==
  IF i = 0 THEN 0
  ELSE IF i > Len(t) \/ t[i] # Chr["."] THEN i
  ELSE IF DigitsEnd(t, i + 1) = i + 1 THEN 0
  ELSE DigitsEnd(t, i + 1)

\* the digits of an exponent, from index i on: at least one
ExpDigits(t, i) == IF DigitsEnd(t, i) = i THEN 0 ELSE DigitsEnd(t, i)

\* optional exponent: e or E, an optional sign, at least one digit
ExpPart(t, i) ==
  IF i = 0 THEN 0
  ELSE IF i > Len(t) \/ t[i] \notin {Chr["e"], Chr["E"]} THEN i
  ELSE IF i + 1 <= Len(t) /\ t[i + 1] \in {Chr["+"], Chr["-"]} THEN ExpDigits(t, i + 2)
  ELSE ExpDigits(t, i + 1)

\* t is a number literal of the grammar, from its first to its last character
IsNumberLiteral(t) ==
  /\ t # <<>>
  /\ ExpPart(t, FracPart(t, IntPart(t, IF t[1] = Chr["-"] THEN 2 ELSE 1))) = Len(t) + 1

\* C26: the number grammar is enforced. parse accepts a text written with the
\* characters of numbers only if it is an optional '-', a single '0' or a
\* digit run not starting with '0', an optional '.' with at least one digit
\* and an optional exponent with at least one digit; a leading '+', a
\* leading zero before a digit, a bare '-', a '.' without digits and an
\* exponent without digits are rejected.
C26_NumberGrammar ==
  (IsNumberText /\ parsed # None) => (parsed.k = "ok" => IsNumberLiteral(text.v))

\* a text with a leading zero before a digit was handed in and rejected
C26_Witness ==
  /\ IsNumberText /\ parsed # None /\ parsed.k = "err"
  /\ text.v = Str(<<"0", "1">>)

(***************************************************************************)
(* What the generator makes of a declaration.                              *)
(***************************************************************************)
\* the build has run on a tagged union and its variants were extracted
VariantsExtracted == spec # None /\ decl.k = "enum" /\ spec.gen = "enum"

\* the names of a sequence of fields, in order
NameList(fields) == [i \in 1..Len(fields) |-> fields[i].name]

\* the VariantSpec v is the declared variant d: its name and its kind, the
\* arity of a Positional one, the fields of a Named one
SameVariant(v, d) ==
  /\ v.name = d.name
  /\ v.kind = d.kind
  /\ d.kind = "Tuple" => Len(v.types) = Len(d.types)
  /\ d.kind = "Struct" => NameList(v.fields) = NameList(d.fields)

\* C27: for every tagged-union declaration the variant extraction returns
\* exactly one VariantSpec per declared variant, in declaration order and
\* with the declared kind, wherever a Named variant stands in the list and
\* whether or not variants carry attributes.
C27_VariantsExtracted ==
  VariantsExtracted =>
    /\ Len(spec.items) = Len(decl.variants)
    /\ \A i \in 1..Len(decl.variants) :
         i <= Len(spec.items) => SameVariant(spec.items[i], decl.variants[i])

\* the build has run on a record and its fields were extracted
FieldsExtracted == spec # None /\ decl.k = "struct" /\ spec.gen = "struct"

\* the FieldSpec f is the declared field d: its host name, its directives
\* and is_option for the optional constructor
SameField(f, d) ==
  /\ f.name = d.name
  /\ f.skip = DeclSkip(d)
  /\ f.skip_if_none = DeclSkipIfNone(d)
  /\ f.rename = (IF HasDirective(d, "rename") THEN OptSome(DeclWire(d)) ELSE OptNone)
  /\ f.is_option = DeclOptional(d)

\* C28: for every record declaration the field extraction returns exactly
\* one FieldSpec per declared field, in declaration order, with the declared
\* host name and directives and is_option exactly for the optional
\* constructor, also for carriers with comma-separated generic arguments or
\* nested brackets and for attributes that list several directives.
C28_FieldsExtracted ==
  FieldsExtracted =>
    /\ Len(spec.items) = Len(decl.fields)
    /\ \A i \in 1..Len(decl.fields) :
         i <= Len(spec.items) => SameField(spec.items[i], decl.fields[i])

\* C30: the derive entry points dispatch on the declaration keyword: a
\* declaration introduced by enum is handed to the tagged-union generator
\* and one introduced by struct to the record generator, whatever
\* identifiers, carriers or attribute text the declaration holds.
C30_DispatchOnKeyword == spec # None => spec.gen = decl.k

(***************************************************************************)
(* The parser followed step by step (src/src/de.rs).  frames holds a frame *)
(* per call that has not returned: the function, the place it has reached  *)
(* (pc) and the one boolean local it keeps across iterations (escaped,     *)
(* has_digits, has_fractional_digits, has_exponent_digits).  A step is one *)
(* iteration of a loop, or the code between two calls.                     *)
(***************************************************************************)
\* texts parsed step by step: sequences of tokens, and texts of one value
StepPieces == {Str(<<"[">>), Str(<<"]">>), Str(<<"{">>), Str(<<"}">>), Str(<<":">>), Str(<<",">>), Str(<<" ">>), Str(<<"\"", "a", "\\", "n", "\"">>), Str(<<"-", "1", "0", ".", "5", "e", "+", "1">>)}

StepPieceSeqs == UNION {[1..n -> StepPieces] : n \in 0..MaxPieces}

NestedText == Str(<<"[", " ", "{", "\"", "a", "\\", "n", "\"", ":", " ", "[", "-", "1", "0", ".", "5", "e", "+", "1", ",", " ", "\"", "A", "\"", "]", "}", " ", "]">>)

StepTexts ==
  {Str(<<"t", "r", "u", "e">>), Str(<<"f", "a", "l", "s", "e">>), Str(<<"n", "u", "l", "l">>), Str(<<"n", "u", "l">>), Str(<<"t">>), Str(<<"t", "EACUTE", "EURO">>), Str(<<"NBSP", "4", "2">>),
   Str(<<"0">>), Str(<<"0", "1">>), Str(<<"1", ".">>), Str(<<"2", "e">>), Str(<<"-">>), Str(<<"1", ".", "5">>), Str(<<"1", "e", "5">>), Str(<<"1", "E", "-", "2">>),
   Str(<<"\"", "A", "\"">>), Str(<<"\"", "\\", "u", "0", "0">>), Str(<<"\"", "\\", "u", "d", "8", "0", "0", "\"">>), Str(<<"\"", "\\", "x", "\"">>), Str(<<"\"", "a">>), Str(<<"\"", "\\", "\"", "[">>),
   Str(<<"[", "\"", "]", "\"", ",", " ", "[", "[", "1", "]", "]", "]">>), Str(<<"{", "\"", "a", "\"", ":", " ", "{", "\"", "b", "\"", ":", " ", "[", "[", "]", "]", "}", ",", " ", "\"", "c", "\"", ":", " ", "1", "}">>), NestedText}

Frame(fn) == [fn |-> fn, pc |-> "start", flag |-> FALSE]

\* parse(json) is entered: Parser::new(json) is made and nothing is consumed
ParserInit ==
  /\ src = None /\ order = AnOrder /\ value = None
  /\ pieces \in StepPieceSeqs \cup {<<t>> : t \in StepTexts}
  /\ text = Ok(Concat(pieces))
  /\ form = "given" /\ target = "none"
  /\ decl = None /\ layout = "none"
  /\ parsed = None /\ decoded = None /\ spec = None
  /\ parser = Parser_new /\ frames = <<Frame("parse")>> /\ ret = "none"

\* the running call, and the calls that wait for it
Top == frames[Len(frames)]
Callers == SubSeq(frames, 1, Len(frames) - 1)

Running(fn) == frames # <<>> /\ Top.fn = fn

\* the character self.peek() yields, and the parser after self.next()
Peeked == peek(text.v, parser)
Consumed == next(text.v, parser)

\* the running call goes on at pc
Goto(pc, flag) == Append(Callers, [Top EXCEPT !.pc = pc, !.flag = flag])

\* the running call calls fn and goes on at pc once fn has returned
Call(fn, pc) == Append(Goto(pc, Top.flag), Frame(fn))

\* a step leaves the Parser as p, the calls as s and the value handed back as r
Becomes(p, s, r) ==
  /\ parser' = p /\ frames' = s /\ ret' = r
  /\ UNCHANGED <<src, value, order, text, form, pieces, parsed, target, decoded, decl, layout, spec>>

\* the running call returns r
Return(p, r) == Becomes(p, Callers, r)

\* pub fn parse: Parser::parse()?, skip_whitespace, the test for a trailing character
StepParse ==
  /\ Running("parse")
  /\ IF Top.pc = "start" THEN Becomes(parser, Call("Parser_parse", "value"), ret)
     ELSE IF Top.pc = "value"
          THEN IF ret = "err" THEN Return(parser, "err")
               ELSE Becomes(parser, Call("skip_whitespace", "trailing"), ret)
     ELSE Return(parser, IF Peeked # NoChar THEN "err" ELSE "ok")

\* Parser::parse: skip_whitespace, then parse_value
StepParserParse ==
  /\ Running("Parser_parse")
  /\ IF Top.pc = "start" THEN Becomes(parser, Call("skip_whitespace", "value"), ret)
     ELSE IF Top.pc = "value" THEN Becomes(parser, Call("parse_value", "done"), ret)
     ELSE Return(parser, ret)

\* skip_whitespace with an iteration that does not call self.next()
StepSkipWhitespaceNoNext ==
  /\ Running("skip_whitespace")
  /\ IF Peeked # NoChar /\ is_whitespace(Peeked)
     THEN Becomes(parser, frames, ret)
     ELSE Return(parser, ret)

\* skip_whitespace: one iteration of its loop
StepSkipWhitespace ==
  /\ Running("skip_whitespace")
  /\ IF Peeked # NoChar /\ is_whitespace(Peeked)
     THEN Becomes(Consumed, frames, ret)
     ELSE Return(parser, ret)

\* the parser the match of parse_value calls for the character c, "" for none
ParserFor(c) ==
  IF c = Chr["n"] THEN "parse_null"
  ELSE IF c = Chr["t"] THEN "parse_true"
  ELSE IF c = Chr["f"] THEN "parse_false"
  ELSE IF c = Chr["\""] THEN "parse_string"
  ELSE IF c = Chr["["] THEN "parse_array"
  ELSE IF c = Chr["{"] THEN "parse_object"
  ELSE IF c = Chr["-"] \/ is_ascii_digit(c) THEN "parse_number"
  ELSE ""

\* parse_value: skip_whitespace, the match on the character peeked, the result
\* of the parser it called (an array's error wrapped) handed on
StepParseValue ==
  /\ Running("parse_value")
  /\ IF Top.pc = "start" THEN Becomes(parser, Call("skip_whitespace", "match"), ret)
     ELSE IF Top.pc = "match"
          THEN IF Peeked = NoChar \/ ParserFor(Peeked) = "" THEN Return(parser, "err")
               ELSE Becomes(parser, Call(ParserFor(Peeked), "done"), ret)
     ELSE Return(parser, ret)

\* what parse_null, parse_true or parse_false answers in the running call
KeywordResult ==
  IF Top.fn = "parse_null" THEN parse_null(text.v, parser)
  ELSE IF Top.fn = "parse_true" THEN parse_true(text.v, parser)
  ELSE parse_false(text.v, parser)

\* a keyword parser is left with result r: returned, or unwound by a panic
KeywordLeft(r) ==
  IF r.k = "ok" THEN Return(r.st, "ok")
  ELSE IF r.k = "err" THEN Return(parser, "err")
  ELSE Becomes(parser, <<>>, "panic")

\* parse_null, parse_true, parse_false: the comparison and the next() of each letter
StepKeyword ==
  /\ frames # <<>> /\ Top.fn \in {"parse_null", "parse_true", "parse_false"}
  /\ KeywordLeft(KeywordResult)

\* the \u arm of parse_string after its four next(): u is what they read
UnicodeArm(u) ==
  IF u.k = "ok" /\ from_u32_ok(u.v) THEN Becomes(u.st, Goto("loop", FALSE), ret)
  ELSE Return(IF u.k = "ok" THEN u.st ELSE parser, "err")

\* parse_string: the opening quote, then one iteration of its loop (flag is escaped)
StepParseString ==
  /\ Running("parse_string")
  /\ IF Top.pc = "start" THEN Becomes(Consumed, Goto("loop", FALSE), ret)
     ELSE IF Peeked = NoChar THEN Return(parser, "err")
     ELSE IF ~Top.flag
          THEN IF Peeked = Chr["\""] THEN Return(Consumed, "ok")
               ELSE Becomes(Consumed, Goto("loop", Peeked = Chr["\\"]), ret)
     ELSE IF EscapeOf(Peeked) # NoChar THEN Becomes(Consumed, Goto("loop", FALSE), ret)
     ELSE IF Peeked = Chr["u"] THEN UnicodeArm(UnicodeEscape(text.v, Consumed, 4, 0))
     ELSE Return(Consumed, "err")

\* the part of parse_number that follows a loop over digits, or its return
AfterDigits(pc) ==
  IF ~Top.flag THEN Return(parser, "err")
  ELSE IF pc = "int" THEN Becomes(parser, Goto("frac", TRUE), ret)
  ELSE IF pc = "frac_digits" THEN Becomes(parser, Goto("exp", TRUE), ret)
  ELSE Return(parser, "ok")

\* the e or E of parse_number is consumed, and the sign that may follow it
ExponentOpened ==
  IF peek(text.v, Consumed) \in {Chr["+"], Chr["-"]} THEN next(text.v, Consumed) ELSE Consumed

\* parse_number: the sign, the leading zero, and one iteration of each of its
\* loops over digits (flag is has_digits, has_fractional_digits, has_exponent_digits)
StepParseNumber ==
  /\ Running("parse_number")
  /\ IF Top.pc = "start"
     THEN Becomes(IF Peeked = Chr["-"] THEN Consumed ELSE parser, Goto("zero", FALSE), ret)
     ELSE IF Top.pc = "zero"
          THEN IF Peeked = Chr["0"] THEN Becomes(Consumed, Goto("frac", TRUE), ret)
               ELSE Becomes(parser, Goto("int", FALSE), ret)
     ELSE IF Top.pc = "frac"
          THEN IF Peeked = Chr["."] THEN Becomes(Consumed, Goto("frac_digits", FALSE), ret)
               ELSE Becomes(parser, Goto("exp", TRUE), ret)
     ELSE IF Top.pc = "exp"
          THEN IF Peeked \in {Chr["e"], Chr["E"]}
               THEN Becomes(ExponentOpened, Goto("exp_digits", FALSE), ret)
               ELSE Return(parser, "ok")
     ELSE IF Peeked # NoChar /\ is_ascii_digit(Peeked)
          THEN Becomes(Consumed, Goto(Top.pc, TRUE), ret)
     ELSE AfterDigits(Top.pc)

\* parse_array: the bracket, the first item, and one iteration of its loop
StepParseArray ==
  /\ Running("parse_array")
  /\ IF Top.pc = "start" THEN Becomes(Consumed, Call("skip_whitespace", "first"), ret)
     ELSE IF Top.pc = "first"
          THEN IF Peeked = Chr["]"] THEN Return(Consumed, "ok")
               ELSE Becomes(parser, Call("parse_value", "item"), ret)
     ELSE IF Top.pc = "item"
          THEN IF ret = "err" THEN Return(parser, "err")
               ELSE Becomes(parser, Call("skip_whitespace", "loop"), ret)
     ELSE IF Top.pc = "loop"
          THEN IF Peeked = Chr[","] THEN Becomes(Consumed, Call("skip_whitespace", "comma"), ret)
               ELSE IF Peeked = Chr["]"] THEN Return(Consumed, "ok")
               ELSE Return(parser, "err")
     ELSE IF Peeked = Chr["]"] THEN Return(parser, "err")
     ELSE Becomes(parser, Call("parse_value", "item"), ret)

\* parse_object: the brace, the first pair, and one iteration of its loop
StepParseObject ==
  /\ Running("parse_object")
  /\ IF Top.pc = "start" THEN Becomes(Consumed, Call("skip_whitespace", "first"), ret)
     ELSE IF Top.pc = "first"
          THEN IF Peeked = Chr["}"] THEN Return(Consumed, "ok")
               ELSE IF Peeked = Chr["\""] THEN Becomes(parser, Call("parse_string", "key"), ret)
               ELSE Return(parser, "err")
     ELSE IF Top.pc = "key"
          THEN IF ret = "err" THEN Return(parser, "err")
               ELSE Becomes(parser, Call("skip_whitespace", "colon"), ret)
     ELSE IF Top.pc = "colon"
          THEN IF Peeked = Chr[":"] THEN Becomes(Consumed, Call("skip_whitespace", "value"), ret)
               ELSE Return(parser, "err")
     ELSE IF Top.pc = "value" THEN Becomes(parser, Call("parse_value", "pair"), ret)
     ELSE IF Top.pc = "pair"
          THEN IF ret = "err" THEN Return(parser, "err")
               ELSE Becomes(parser, Call("skip_whitespace", "loop"), ret)
     ELSE IF Top.pc = "loop"
          THEN IF Peeked = Chr[","] THEN Becomes(Consumed, Call("skip_whitespace", "comma"), ret)
               ELSE IF Peeked = Chr["}"] THEN Return(Consumed, "ok")
               ELSE Return(parser, "err")
     ELSE IF Peeked = Chr["\""] THEN Becomes(parser, Call("parse_string", "key"), ret)
     ELSE Return(parser, "err")

ParserNext ==
  StepParse \/ StepParserParse \/ StepSkipWhitespace \/ StepParseValue \/ StepKeyword
  \/ StepParseString \/ StepParseNumber \/ StepParseArray \/ StepParseObject

\* the thread that called parse runs its next step as long as there is one
ParserSpec == ParserInit /\ [][ParserNext]_vars /\ WF_vars(ParserNext)

(***************************************************************************)
(* Termination of the parser.                                              *)
(***************************************************************************)
\* the running call is at the head of one of its loops
AtLoopHead ==
  /\ frames # <<>>
  /\ \/ Top.fn = "skip_whitespace"
     \/ Top.fn \in {"parse_string", "parse_array", "parse_object"} /\ Top.pc = "loop"
     \/ Top.fn = "parse_number" /\ Top.pc \in {"int", "frac_digits", "exp_digits"}

\* the step has returned from the running call, or has left its loop
LoopLeft ==
  \/ Len(frames') < Len(frames)
  \/ Len(frames') = Len(frames) /\ frames'[Len(frames)].pc # Top.pc

\* an iteration consumes a character, or returns, or ends the loop
LoopAdvances == AtLoopHead => (parser'.i > parser.i \/ LoopLeft)

\* neither the chars iterator nor self.pos goes back
CursorForward == parser'.i >= parser.i /\ parser'.pos >= parser.pos

RECURSIVE NestingFrom(_, _, _, _, _, _)
\* the deepest bracket nesting of the text from index i on: depth brackets are
\* open at i, deepest is the most seen; brackets inside string literals do not count
NestingFrom(t, i, inStr, esc, depth, deepest) ==
  IF i > Len(t) THEN deepest
  ELSE IF inStr
       THEN NestingFrom(t, i + 1, esc \/ t[i] # Chr["\""], ~esc /\ t[i] = Chr["\\"],
                        depth, deepest)
  ELSE IF t[i] \in {Chr["["], Chr["{"]}
       THEN NestingFrom(t, i + 1, FALSE, FALSE, depth + 1,
                        IF depth + 1 > deepest THEN depth + 1 ELSE deepest)
  ELSE IF t[i] \in {Chr["]"], Chr["}"]}
       THEN NestingFrom(t, i + 1, FALSE, FALSE, depth - 1, deepest)
  ELSE NestingFrom(t, i + 1, t[i] = Chr["\""], FALSE, depth, deepest)

NestingDepth(t) == NestingFrom(t, 1, FALSE, FALSE, 0, 0)

\* the calls of parse_value that have not returned
ValueCalls == {k \in 1..Len(frames) : frames[k].fn = "parse_value"}

\* how deep parse_value has called itself: its calls in progress but the outermost
RecursionDepth == IF ValueCalls = {} THEN 0 ELSE Cardinality(ValueCalls) - 1

\* the parse followed step by step has returned to its caller
Returned == parser # None /\ frames = <<>>

\* C29: parse terminates on every finite input: the call returns; every
\* iteration of the loops of skip_whitespace, parse_string, parse_number,
\* parse_array and parse_object consumes at least one character or leaves the
\* loop; the cursor never moves backwards; and parse_value is never nested in
\* itself more deeply than the brackets of the input are nested.
C29_ParseTerminates ==
  /\ <>Returned
  /\ [][LoopAdvances /\ CursorForward]_vars
  /\ [](RecursionDepth <= NestingDepth(text.v))

\* C29 witness: the parse of a text with nested brackets, whitespace, a string
\* with escapes and a number has returned its value, everything consumed
C29_Witness ==
  /\ Returned /\ ret = "ok"
  /\ text.v = NestedText /\ NestingDepth(text.v) = 3
  /\ parser.i = Len(text.v) + 1

====
